---------------------------- MODULE Spec2Model ----------------------------
(***************************************************************************)
(* A model of the api_visualizer telemetry pipeline: the storage engine    *)
(* (storage/database.py), the event emitter (instrumentation/              *)
(* event_emitter.py), the alert engine (alerting/alert_engine.py) and the  *)
(* collector (collector/base_collector.py, storage/models.py).             *)
(*                                                                         *)
(* Each component has its own specification over the shared variables:     *)
(*   SpecStorage    store_events statement by statement, cleanup_old_data  *)
(*   SpecEmitter    start / stop / emit and the batch worker               *)
(*   SpecAlert      the three threshold checks and _send_alert             *)
(*   SpecCollector  validate, sanitize, buffer and flush                   *)
(*                                                                         *)
(* Python's None is the empty tuple <<>> and a present value x is <<x>>,   *)
(* so that optional fields of either type compare without a type clash.    *)
(* SQLite REAL columns are exact rationals <<numerator, denominator>>.     *)
(***************************************************************************)
EXTENDS Integers, Sequences, FiniteSets, TLC

VARIABLES
    \* ---- storage: the database file as the writer connection sees it
    api_events,            \* rows of table api_events
    next_rowid,            \* the AUTOINCREMENT counter of api_events
    endpoint_metrics,      \* rows of table endpoint_metrics
    service_dependencies,  \* rows of table service_dependencies
    visible,               \* the committed state every other connection reads
    in_transaction,        \* sqlite3.Connection.in_transaction of the writer
    st_pc,                 \* where store_events is: idle, raw, bucket, edge, commit
    st_batch,              \* the events argument of the running store_events
    st_idx,                \* index of the event the for loop is at
    stored_count,          \* the local stored_count of store_events
    st_result,             \* what the last store_events call returned
    st_ignored,            \* whether the last INSERT OR IGNORE was ignored
    cutoff_time,           \* the cutoff the last cleanup_old_data computed
    purged,                \* the api_events rows the last cleanup deleted
    \* ---- storage: bookkeeping of the run
    submitted,             \* number of events handed to store_events so far
    cleanups,              \* number of cleanup_old_data calls so far
    folded,                \* per bucket key: <<number, sum>> of latencies folded
    edge_folded,           \* per edge key: number, latency sum, error-flag sum folded
    \* ---- emitter
    is_running,            \* EventEmitter.is_running
    event_queue,           \* EventEmitter.event_queue, oldest first
    stats,                 \* EventEmitter.stats
    workers,               \* the batch worker threads started so far
    transport_events,      \* MemoryTransport.events
    stop_pc,               \* where stop() is: none, join
    em_now,                \* the last reading of time.time(), in microseconds
    emit_calls,            \* emit calls made while the emitter was running
    pulled,                \* events the workers have taken off the queue
    transport_type,        \* EventEmitter.transport_type: memory, redis, udp
    transport_closed,      \* whether stop() has called transport.close()
    send_log,              \* per emit call: times its event went to transport.send
    \* ---- alert engine
    config,                \* AlertEngine.config: thresholds and notifiers
    al_now,                \* the wall clock the checks read, in seconds
    alerts_sent,           \* AlertEngine.alerts_sent, a set of alert ids
    sent_bag,              \* per (alert_type, message): _send_alert calls made
    deliveries,            \* per (notifier, alert_type, message): send calls made
    last_sends,            \* the notifier.send calls of the last engine step, in order
    id_owner,              \* per alert id: the pair whose call added it, and when
    last_check,            \* what the last check computed and did
    n_checks,              \* checks run so far
    n_direct,              \* _send_alert calls made by other callers so far
    n_ingests,             \* store_events calls made beside the engine so far
    \* ---- collector
    running,               \* BaseCollector.running
    buffer,                \* BaseCollector._buffer
    fetched,               \* what is left of the events _collect_loop iterates over
    co_pc,                 \* where the collector is: idle, fetch, for, stopped, dead
    handed,                \* every event handed to store_events so far
    skipped,               \* the reasons of the last event skipped as invalid
    n_fetches,             \* _fetch_events calls made so far
    n_fetched,             \* events those calls have returned in all
    sp_pc,                 \* where stop() is: none, clear (before the clear), done
    buffered,              \* every event appended to the buffer so far
    n_stores,              \* store_events calls the collector has made
    last_store,            \* how the last of them ended: returned, raised
    \* ---- memory collector
    mc_pc,                 \* where MemoryCollector._fetch_events is: idle, clear
    mc_events,             \* its local events, the copy get_events() returned
    mc_returned,           \* emit calls whose event some fetch has returned
    \* ---- redis collector
    stream,                \* the Redis stream: per entry id, the data it carries
    last_id,               \* RedisCollector.last_id: Dollar or an entry id
    rd_pc,                 \* where _fetch_events is: idle, or blocked in xread
    rd_from,               \* the entry id the blocked xread waits behind
    rd_returned,           \* ids of the entries whose event a fetch has returned
    \* ---- scheduler
    sc_pc,                 \* where _run_loop is: none (no thread), test, a check, sleep, finished
    stop_event,            \* AlertScheduler._stop_event
    sc_stop_pc,            \* where stop() is: none, join, returned
    sc_cycles,             \* cycles the loop has begun
    sc_errors,             \* exceptions the loop has caught and logged
    \* ---- time windows
    tw_call,               \* the last call that took a time-window string, and its result
    \* ---- UDP collector
    udp_pc,                \* where the collector's thread is: idle, loop, recv, stopped, raised
    udp_running,           \* BaseCollector.running of the UDP collector
    udp_closed,            \* stop() has closed the socket
    udp_events,            \* the end of the local list events of _fetch_events
    udp_returned,          \* the end of the list the last _fetch_events returned
    \* ---- MemoryTransport.send, statement by statement
    ms_pc,                 \* where the sending thread is inside send: idle, extended, slice, rebind
    ms_slice,              \* the list self.events[-self.max_events:] has built, not yet bound
    ms_calls               \* events passed to send so far

storageVars == <<api_events, next_rowid, endpoint_metrics, service_dependencies,
                 visible, in_transaction, st_pc, st_batch, st_idx, stored_count,
                 st_result, st_ignored, cutoff_time, purged, submitted, cleanups,
                 folded, edge_folded>>

emitterVars == <<is_running, event_queue, stats, workers, transport_events,
                 stop_pc, em_now, emit_calls, pulled, transport_type,
                 transport_closed, send_log>>

alertVars == <<config, al_now, alerts_sent, sent_bag, deliveries, last_sends, id_owner,
               last_check, n_checks, n_direct, n_ingests>>

collectorVars == <<running, buffer, fetched, co_pc, handed, skipped, n_fetches, n_fetched,
                   sp_pc, buffered, n_stores, last_store>>

sendVars == <<ms_pc, ms_slice, ms_calls>>

drainVars == <<mc_pc, mc_events, mc_returned, sendVars>>

redisVars == <<stream, last_id, rd_pc, rd_from, rd_returned>>

schedulerVars == <<sc_pc, stop_event, sc_stop_pc, sc_cycles, sc_errors>>

windowVars == <<tw_call>>

udpVars == <<udp_pc, udp_running, udp_closed, udp_events, udp_returned>>

vars == <<storageVars, emitterVars, alertVars, collectorVars, drainVars, redisVars,
          schedulerVars, windowVars, udpVars>>

\* What the handlers of one component leave alone.
nonStorageVars == <<emitterVars, alertVars, collectorVars, drainVars, redisVars,
                    schedulerVars, windowVars, udpVars>>

nonEmitterVars == <<storageVars, alertVars, collectorVars, drainVars, redisVars,
                    schedulerVars, windowVars, udpVars>>

nonAlertVars == <<storageVars, emitterVars, collectorVars, drainVars, redisVars,
                  windowVars, udpVars>>

nonRedisVars == <<storageVars, emitterVars, alertVars, collectorVars, drainVars,
                  schedulerVars, windowVars, udpVars>>

--------------------------------------------------------------------------
(* Values *)

None == <<>>

Some(x) == <<x>>

\* Python truthiness of an optional string: None and '' are falsy.
Truthy(opt) == opt # None /\ opt # Some("")

RECURSIVE GCD(_, _)
GCD(a, b) == IF b = 0 THEN a ELSE GCD(b, a % b)

\* The rational n/d in lowest terms, d > 0; n >= 0 throughout the model.
Frac(n, d) == LET g == GCD(n, d) IN <<n \div g, d \div g>>

FracOfInt(n) == <<n, 1>>

FracAdd(p, q) == Frac(p[1] * q[2] + q[1] * p[2], p[2] * q[2])

FracMulInt(p, k) == Frac(p[1] * k, p[2])

FracDivInt(p, k) == Frac(p[1], p[2] * k)

--------------------------------------------------------------------------
(* Bounds *)

\* Events handed to store_events over one run.
MaxEvents == 3

\* cleanup_old_data calls over one run.
MaxCleanups == 1

\* Capacity of the emitter's queue (queue.Queue(maxsize=...)), scaled down.
QueueSize == 2

\* emit calls over one run.
MaxEmits == 3

\* start() calls over one run.
MaxStarts == 2

\* Steps of one run beside the alert engine: checks, _send_alert calls of
\* other callers, store_events calls and clock steps together.
MaxAlertSteps == 4

\* _fetch_events calls over one run, and events they return in all.
MaxFetches == 2

MaxFetched == 3

\* BaseCollector.batch_size, scaled down.
CollectorBatchSize == 3

\* Entries appended to the Redis stream over one run.
MaxStreamLen == 5

\* Batches stored between the calls made with a window string.
MaxWindowIngests == 2

\* Cycles the scheduler's loop begins.
MaxCycles == 3

\* transport.batch_size and MemoryTransport.max_events of the configuration.
BatchSize == 2

MaxTransportEvents == 2

--------------------------------------------------------------------------
(* Storage: time, keys and the SQL statements *)

SecondsPerHour == 3600

HoursPerDay == 24

\* datetime.fromtimestamp(ts).strftime('%Y-%m-%d-%H'): the fixed-width text
\* YYYY-MM-DD-HH as the tuple <<day number, hour of day>>; zero padding makes
\* the text order the numeric order of the parts (local time taken as UTC).
FormatDateHour(ts) ==
    <<ts \div (SecondsPerHour * HoursPerDay), (ts \div SecondsPerHour) % HoursPerDay>>

\* strftime('%Y-%m-%d'): the date alone.
FormatDate(ts) == <<ts \div (SecondsPerHour * HoursPerDay)>>

\* timedelta(days=days_to_keep) subtracted from a clock reading.
MinusDays(now, days) == now - days * HoursPerDay * SecondsPerHour

\* Text comparison a < b of two fixed-width texts given as tuples of parts:
\* the first differing part decides, and a proper prefix sorts first.
RECURSIVE TextLess(_, _)
TextLess(a, b) ==
    IF b = <<>> THEN FALSE
    ELSE IF a = <<>> THEN TRUE
    ELSE IF Head(a) # Head(b) THEN Head(a) < Head(b)
    ELSE TextLess(Tail(a), Tail(b))

\* A host name as its DNS labels; 'x in host' is a contiguous run of labels.
Contains(host, pat) ==
    \E i \in 0..(Len(host) - Len(pat)) :
        \A j \in 1..Len(pat) : host[i + j] = pat[j]

extract_service_name(host) ==
    IF host = <<>> THEN "unknown"
    ELSE IF Contains(host, <<"api", "github", "com">>) THEN "github-api"
    ELSE IF Contains(host, <<"newsapi", "org">>) THEN "newsapi"
    ELSE IF Contains(host, <<"httpbin", "org">>) THEN "httpbin"
    ELSE IF Contains(host, <<"localhost">>) \/ Contains(host, <<"127", "0", "0", "1">>)
         THEN "localhost"
    ELSE host[1]

\* The UNIQUE(event_id) constraint: a NULL never conflicts.
EventIdConflict(rows, e) ==
    e.event_id # None /\ \E r \in rows : r.event_id = e.event_id

\* store_api_event as a plain insert into a table without UNIQUE(event_id).
store_api_event_no_unique(rows, rowid, e) ==
    rows \cup {[rowid |-> rowid,
                event_id |-> e.event_id,
                timestamp |-> e.timestamp,
                service_name |-> e.service_name,
                endpoint |-> e.endpoint,
                method |-> e.method,
                host |-> e.host,
                status_code |-> e.status_code,
                latency_ms |-> e.latency_ms,
                request_size |-> e.request_size,
                response_size |-> e.response_size,
                error |-> e.error]}

\* INSERT OR IGNORE INTO api_events: the rows afterwards.
store_api_event(rows, rowid, e) ==
    IF EventIdConflict(rows, e) THEN rows
    ELSE rows \cup {[rowid |-> rowid,
                     event_id |-> e.event_id,
                     timestamp |-> e.timestamp,
                     service_name |-> e.service_name,
                     endpoint |-> e.endpoint,
                     method |-> e.method,
                     host |-> e.host,
                     status_code |-> e.status_code,
                     latency_ms |-> e.latency_ms,
                     request_size |-> e.request_size,
                     response_size |-> e.response_size,
                     error |-> e.error]}

BucketKey(e) == <<e.service_name, e.endpoint, e.method, FormatDateHour(e.timestamp)>>

KeyOfBucket(b) == <<b.service_name, b.endpoint, b.method, b.date_hour>>

\* event.get('error') is not None and 1 or 0
BucketErrorFlag(e) == IF e.error # None THEN 1 ELSE 0

\* The DO UPDATE SET clause of the endpoint_metrics upsert.  Every column on
\* a right-hand side is the value the row had BEFORE the statement, so the
\* request_count inside the mean is the count before the increment.
UpsertBucketRow(b, e) ==
    [b EXCEPT
        !.request_count = b.request_count + 1,
        !.avg_latency_ms =
            FracDivInt(FracAdd(FracMulInt(b.avg_latency_ms, b.request_count - 1),
                               FracOfInt(e.latency_ms)),
                       b.request_count),
        !.error_count = b.error_count + BucketErrorFlag(e),
        !.total_request_size = b.total_request_size + e.request_size,
        !.total_response_size = b.total_response_size + e.response_size]

\* INSERT INTO endpoint_metrics ... ON CONFLICT(...) DO UPDATE: the rows afterwards.
update_endpoint_metrics(buckets, e) ==
    IF e.timestamp = 0 THEN buckets
    ELSE IF \E b \in buckets : KeyOfBucket(b) = BucketKey(e)
    THEN {IF KeyOfBucket(b) = BucketKey(e) THEN UpsertBucketRow(b, e) ELSE b :
             b \in buckets}
    ELSE buckets \cup {[service_name |-> e.service_name,
                        endpoint |-> e.endpoint,
                        method |-> e.method,
                        date_hour |-> FormatDateHour(e.timestamp),
                        request_count |-> 1,
                        avg_latency_ms |-> FracOfInt(e.latency_ms),
                        error_count |-> BucketErrorFlag(e),
                        total_request_size |-> e.request_size,
                        total_response_size |-> e.response_size]}

EdgeKey(e) == <<e.service_name, extract_service_name(e.host), e.host>>

KeyOfEdge(d) == <<d.caller_service, d.target_service, d.target_host>>

\* event.get('status_code', 0) >= 400 with status_code None raises TypeError;
\* the 'or' evaluates it only when event.get('error') is falsy.
EdgeFlagRaises(e) == ~Truthy(e.error) /\ e.status_code = None

\* 1 if event.get('error') or (event.get('status_code', 0) >= 400) else 0
EdgeErrorFlag(e) ==
    IF Truthy(e.error) THEN 1
    ELSE IF e.status_code # None /\ e.status_code[1] >= 400 THEN 1
    ELSE 0

UpsertEdgeRow(d, e) ==
    [d EXCEPT
        !.call_count = d.call_count + 1,
        !.avg_latency_ms =
            FracDivInt(FracAdd(FracMulInt(d.avg_latency_ms, d.call_count - 1),
                               FracOfInt(e.latency_ms)),
                       d.call_count),
        !.error_rate =
            FracDivInt(FracAdd(FracMulInt(d.error_rate, d.call_count - 1),
                               FracOfInt(EdgeErrorFlag(e))),
                       d.call_count)]

\* INSERT INTO service_dependencies ... ON CONFLICT(...) DO UPDATE: the rows
\* afterwards (first_seen and last_seen, wall-clock stamps, are left out).
update_service_dependencies(deps, e) ==
    IF e.service_name = "" \/ e.host = <<>> THEN deps
    ELSE IF \E d \in deps : KeyOfEdge(d) = EdgeKey(e)
    THEN {IF KeyOfEdge(d) = EdgeKey(e) THEN UpsertEdgeRow(d, e) ELSE d : d \in deps}
    ELSE deps \cup {[caller_service |-> e.service_name,
                     target_service |-> extract_service_name(e.host),
                     target_host |-> e.host,
                     call_count |-> 1,
                     avg_latency_ms |-> FracOfInt(e.latency_ms),
                     error_rate |-> FracOfInt(EdgeErrorFlag(e))]}

--------------------------------------------------------------------------
(* Storage: the connection and the store_events / cleanup_old_data handlers *)

\* sqlite3.connect(..., isolation_level=None): the connection is in autocommit
\* mode, the sqlite3 module opens no transaction before a DML statement.
isolation_level == None

\* Whether the connection is inside a transaction once a DML statement has
\* run: the module issues an implicit BEGIN only under a non-None level.
AfterStatement(inTx) == inTx \/ isolation_level # None

DbState(rows, buckets, deps) ==
    [api_events |-> rows, endpoint_metrics |-> buckets, service_dependencies |-> deps]

\* What other connections read after a statement of the writer: outside a
\* transaction the statement is committed at once.
VisibleAfter(inTx, old, new) == IF inTx THEN old ELSE new

\* Timestamps used below: 86399 is one second before a day boundary, 86400
\* the boundary and 90000 one hour later.  An outcome is (status_code, error).

\* The latency each producer call took; the same event re-sent keeps it.
LatencyOf(id) ==
    CASE id = Some("e1") -> 100
      [] id = Some("e2") -> 200
      [] id = Some("e3") -> 300
      [] OTHER -> 100

MakeEvent(id, ts, host, outcome) ==
    [event_id |-> id, timestamp |-> ts, service_name |-> "svc",
     endpoint |-> "/users", method |-> "GET", host |-> host,
     status_code |-> outcome[1], latency_ms |-> LatencyOf(id),
     request_size |-> 10, response_size |-> 20, error |-> outcome[2]]

\* The events a caller may hand to store_events: the three calls in one hour
\* bucket, re-sends of them with another timestamp or outcome, a call to a
\* second host, and an event whose event_id is None.
EventPool ==
    {MakeEvent(Some("e1"), 86400, <<"api", "github", "com">>, <<Some(200), None>>),
     MakeEvent(Some("e2"), 86400, <<"api", "github", "com">>, <<Some(200), None>>),
     MakeEvent(Some("e3"), 86400, <<"api", "github", "com">>, <<Some(200), None>>),
     MakeEvent(Some("e1"), 86399, <<"api", "github", "com">>, <<Some(500), None>>),
     MakeEvent(Some("e2"), 86399, <<"api", "github", "com">>, <<None, Some("boom")>>),
     MakeEvent(Some("e3"), 86400, <<"db", "internal">>, <<None, None>>),
     MakeEvent(Some("e1"), 90000, <<"db", "internal">>, <<Some(200), None>>),
     MakeEvent(None, 86400, <<"db", "internal">>, <<Some(200), None>>)}

Batches(n) == UNION {[1..k -> EventPool] : k \in 1..n}

\* days_to_keep arguments and clock readings of cleanup_old_data.
RetentionDays == {1, 2}

ClockReadings == {172800, 172801}

InitStorage ==
    /\ api_events = {}
    /\ next_rowid = 1
    /\ endpoint_metrics = {}
    /\ service_dependencies = {}
    /\ visible = DbState({}, {}, {})
    /\ in_transaction = FALSE
    /\ st_pc = "idle"
    /\ st_batch = <<>>
    /\ st_idx = 0
    /\ stored_count = 0
    /\ st_result = 0
    /\ st_ignored = FALSE
    /\ cutoff_time = 0
    /\ purged = {}
    /\ submitted = 0
    /\ cleanups = 0
    /\ folded = {}
    /\ edge_folded = {}

\* store_events(events) up to the first statement: the empty batch returns 0,
\* otherwise 'with conn:' is entered, which begins no transaction.
StoreBegin ==
    /\ UNCHANGED nonStorageVars
    /\ st_pc = "idle"
    /\ \/ /\ st_result' = 0
          /\ UNCHANGED <<st_pc, st_batch, st_idx, stored_count, submitted>>
       \/ /\ submitted < MaxEvents
          /\ \E b \in Batches(MaxEvents - submitted) :
                /\ st_batch' = b
                /\ submitted' = submitted + Len(b)
          /\ st_pc' = "raw"
          /\ st_idx' = 1
          /\ stored_count' = 0
          /\ UNCHANGED st_result
    /\ UNCHANGED <<api_events, next_rowid, endpoint_metrics, service_dependencies,
                   visible, in_transaction, st_ignored, cutoff_time, purged,
                   cleanups, folded, edge_folded>>

\* self._store_api_event(conn, event)
StoreRaw ==
    /\ UNCHANGED nonStorageVars
    /\ st_pc = "raw"
    /\ LET e == st_batch[st_idx]
           rows == store_api_event(api_events, next_rowid, e)
           tx == AfterStatement(in_transaction)
       IN /\ api_events' = rows
          /\ st_ignored' = (rows = api_events)
          /\ next_rowid' = IF rows = api_events THEN next_rowid ELSE next_rowid + 1
          /\ in_transaction' = tx
          /\ visible' = VisibleAfter(tx, visible,
                                     DbState(rows, endpoint_metrics, service_dependencies))
    /\ st_pc' = "bucket"
    /\ UNCHANGED <<endpoint_metrics, service_dependencies, st_batch, st_idx,
                   stored_count, st_result, cutoff_time, purged, submitted,
                   cleanups, folded, edge_folded>>

\* The record of what was folded into a bucket, beside the table: for each
\* bucket key the number of events folded and the sum of their latencies.
Fold(f, e) ==
    LET k == BucketKey(e)
    IN IF \E t \in f : t[1] = k
       THEN {IF t[1] = k THEN <<k, t[2] + 1, t[3] + e.latency_ms>> ELSE t : t \in f}
       ELSE f \cup {<<k, 1, e.latency_ms>>}

\* self._update_endpoint_metrics(conn, event)
StoreBucket ==
    /\ UNCHANGED nonStorageVars
    /\ st_pc = "bucket"
    /\ LET e == st_batch[st_idx]
           buckets == update_endpoint_metrics(endpoint_metrics, e)
           tx == AfterStatement(in_transaction)
       IN /\ endpoint_metrics' = buckets
          /\ folded' = Fold(folded, e)
          /\ in_transaction' = tx
          /\ visible' = VisibleAfter(tx, visible,
                                     DbState(api_events, buckets, service_dependencies))
    /\ st_pc' = "edge"
    /\ UNCHANGED <<api_events, next_rowid, service_dependencies, st_batch, st_idx,
                   stored_count, st_result, st_ignored, cutoff_time, purged,
                   submitted, cleanups, edge_folded>>

\* The for loop goes to the next event, or the with block is left.
NextPc == IF st_idx = Len(st_batch) THEN "commit" ELSE "raw"

\* The record of what was folded into an edge, beside the table: for each
\* edge key the number of events folded, the sum of their latencies and the
\* number of them whose error indicator is 1.
FoldEdge(f, e) ==
    LET k == EdgeKey(e)
    IN IF e.service_name = "" \/ e.host = <<>> THEN f
       ELSE IF \E t \in f : t[1] = k
       THEN {IF t[1] = k
             THEN <<k, t[2] + 1, t[3] + e.latency_ms, t[4] + EdgeErrorFlag(e)>>
             ELSE t : t \in f}
       ELSE f \cup {<<k, 1, e.latency_ms, EdgeErrorFlag(e)>>}

\* A store_events whose for loop is left at the first event that raises.
PcAfterError_abort == "commit"

\* except Exception: the error is logged and the for loop takes its next turn.
PcAfterError == NextPc

\* self._update_service_dependencies(conn, event); stored_count += 1.  When
\* building the statement's arguments raises, the except clause logs the
\* event and the loop goes on without counting it.
StoreEdge ==
    /\ UNCHANGED nonStorageVars
    /\ st_pc = "edge"
    /\ LET e == st_batch[st_idx]
           deps == update_service_dependencies(service_dependencies, e)
           tx == AfterStatement(in_transaction)
       IN IF EdgeFlagRaises(e)
          THEN UNCHANGED <<service_dependencies, stored_count, in_transaction, visible,
                           edge_folded>>
          ELSE /\ service_dependencies' = deps
               /\ edge_folded' = FoldEdge(edge_folded, e)
               /\ stored_count' = stored_count + 1
               /\ in_transaction' = tx
               /\ visible' = VisibleAfter(tx, visible,
                                          DbState(api_events, endpoint_metrics, deps))
    /\ st_pc' = IF EdgeFlagRaises(st_batch[st_idx]) THEN PcAfterError ELSE NextPc
    /\ st_idx' = IF st_idx = Len(st_batch) THEN st_idx ELSE st_idx + 1
    /\ UNCHANGED <<api_events, next_rowid, endpoint_metrics, st_batch, st_result,
                   st_ignored, cutoff_time, purged, submitted, cleanups, folded>>

\* Leaving 'with conn:' commits whatever transaction is open; return stored_count.
StoreCommit ==
    /\ UNCHANGED nonStorageVars
    /\ st_pc = "commit"
    /\ visible' = DbState(api_events, endpoint_metrics, service_dependencies)
    /\ in_transaction' = FALSE
    /\ st_result' = stored_count
    /\ st_pc' = "idle"
    /\ st_batch' = <<>>
    /\ st_idx' = 0
    /\ stored_count' = 0
    /\ st_ignored' = FALSE
    /\ UNCHANGED <<api_events, next_rowid, endpoint_metrics, service_dependencies,
                   cutoff_time, purged, submitted, cleanups, folded, edge_folded>>

\* DeleteOldEvents with the comparison timestamp <= ?
DeleteOldEvents_inclusive(rows, cutoff) == {r \in rows : ~(r.timestamp <= cutoff)}

\* DELETE FROM api_events WHERE timestamp < ?
DeleteOldEvents(rows, cutoff) == {r \in rows : ~(r.timestamp < cutoff)}

\* A delete that compares the date part of date_hour with the cutoff date
\* and takes the buckets of the cutoff day as well.
DeleteOldMetrics_through_cutoff_day(buckets, cutoff_date) ==
    {b \in buckets : ~(SubSeq(b.date_hour, 1, 1) = cutoff_date
                        \/ TextLess(b.date_hour, cutoff_date))}

\* DELETE FROM endpoint_metrics WHERE date_hour < ?
DeleteOldMetrics(buckets, cutoff_date) ==
    {b \in buckets : ~TextLess(b.date_hour, cutoff_date)}

\* cleanup_old_data(days_to_keep), called between store_events calls;
\* datetime.now() is read once for each of the two cutoffs.
Cleanup ==
    /\ UNCHANGED nonStorageVars
    /\ st_pc = "idle"
    /\ cleanups < MaxCleanups
    /\ \E days \in RetentionDays, now1 \in ClockReadings, now2 \in ClockReadings :
          /\ now1 <= now2
          /\ LET cutoff == MinusDays(now1, days)
                 cutoff_date == FormatDate(MinusDays(now2, days))
                 rows == DeleteOldEvents(api_events, cutoff)
                 buckets == DeleteOldMetrics(endpoint_metrics, cutoff_date)
             IN /\ cutoff_time' = cutoff
                /\ api_events' = rows
                /\ purged' = api_events \ rows
                /\ endpoint_metrics' = buckets
                /\ folded' = {t \in folded : \E b \in buckets : KeyOfBucket(b) = t[1]}
                /\ visible' = DbState(rows, buckets, service_dependencies)
    /\ in_transaction' = FALSE
    /\ cleanups' = cleanups + 1
    /\ UNCHANGED <<next_rowid, service_dependencies, st_pc, st_batch, st_idx,
                   stored_count, st_result, st_ignored, submitted, edge_folded>>

NextStorage ==
    \/ StoreBegin
    \/ StoreRaw
    \/ StoreBucket
    \/ StoreEdge
    \/ StoreCommit
    \/ Cleanup

--------------------------------------------------------------------------
(* Emitter: EventEmitter and MemoryTransport *)

InitEmitter(types) ==
    /\ transport_type \in types
    /\ transport_closed = FALSE
    /\ send_log = <<>>
    /\ is_running = FALSE
    /\ event_queue = <<>>
    /\ stats = [events_emitted |-> 0, batches_sent |-> 0, errors |-> 0,
                dropped_events |-> 0]
    /\ workers = <<>>
    /\ transport_events = <<>>
    /\ stop_pc = "none"
    /\ em_now = 0
    /\ emit_calls = 0
    /\ pulled = 0

\* put_nowait on a queue.Queue(maxsize=QueueSize) whose length equals the
\* capacity raises queue.Full, only above it.
QueueFull_above(q) == Len(q) > QueueSize

\* put_nowait on a queue.Queue(maxsize=QueueSize) raises queue.Full.
QueueFull(q) == Len(q) >= QueueSize

\* _generate_event_id: int(time.time() * 1000000) of a clock reading.
generate_event_id(t) == t

\* A send that keeps the first max_events of the extended list.
MemorySend_keep_oldest(events, batch) ==
    LET all == events \o batch
    IN IF Len(all) > MaxTransportEvents THEN SubSeq(all, 1, MaxTransportEvents) ELSE all

\* MemoryTransport.send: extend, then keep the last max_events.
MemorySend(events, batch) ==
    LET all == events \o batch
    IN IF Len(all) > MaxTransportEvents
       THEN SubSeq(all, Len(all) - MaxTransportEvents + 1, Len(all))
       ELSE all

\* _send_batch counting every batch as sent.
SendStats_always_sent(st, batch, ok) ==
    IF batch = <<>> THEN st ELSE [st EXCEPT !.batches_sent = @ + 1]

\* _send_batch: the stats and the transport after sending batch; ok tells
\* whether transport.send returned rather than raised.
SendStats(st, batch, ok) ==
    IF batch = <<>> THEN st
    ELSE IF ok THEN [st EXCEPT !.batches_sent = @ + 1]
    ELSE [st EXCEPT !.errors = @ + 1]

SendTransport(events, batch, ok) ==
    IF batch # <<>> /\ ok THEN MemorySend(events, batch) ELSE events

\* What transport.send can do: return (TRUE) or raise (FALSE); sendto on the
\* closed socket of a UDPTransport always raises.
SendResults == IF transport_type = "udp" /\ transport_closed THEN {FALSE} ELSE BOOLEAN

\* hasattr(self.transport, 'close'): MemoryTransport has none.
HasClose(type) == type # "memory"

\* The log after batch has been passed to transport.send once.
RECURSIVE SendLogged(_, _)
SendLogged(log, batch) ==
    IF batch = <<>> THEN log
    ELSE SendLogged(IF Head(batch).call \in DOMAIN log
                    THEN [log EXCEPT ![Head(batch).call] = @ + 1]
                    ELSE log @@ (Head(batch).call :> 1),
                    Tail(batch))

\* start(): a second start of a running emitter returns at once.
Start ==
    /\ UNCHANGED nonEmitterVars
    /\ stop_pc = "none"
    /\ IF is_running
       THEN UNCHANGED emitterVars
       ELSE /\ Len(workers) < MaxStarts
            /\ is_running' = TRUE
            /\ workers' = Append(workers, [pc |-> "check", batch |-> <<>>])
            /\ UNCHANGED <<event_queue, stats, transport_events, stop_pc, em_now,
                           emit_calls, pulled, transport_type, transport_closed,
                           send_log>>

\* stop() up to the join: the flag is cleared.
StopBegin ==
    /\ UNCHANGED nonEmitterVars
    /\ stop_pc = "none"
    /\ IF ~is_running
       THEN UNCHANGED emitterVars
       ELSE /\ is_running' = FALSE
            /\ stop_pc' = "join"
            /\ UNCHANGED <<event_queue, stats, workers, transport_events, em_now,
                           emit_calls, pulled, transport_type, transport_closed,
                           send_log>>

\* stop() from the join on: batch_thread.join(timeout=2.0) returns when the
\* last started worker has ended or the two seconds are over; then the
\* transport is closed if it has a close(), and stop() returns.
StopJoin ==
    /\ UNCHANGED nonEmitterVars
    /\ stop_pc = "join"
    /\ \/ workers[Len(workers)].pc = "dead"
       \/ workers[Len(workers)].pc # "dead"
    /\ transport_closed' = (transport_closed \/ HasClose(transport_type))
    /\ stop_pc' = "none"
    /\ UNCHANGED <<is_running, event_queue, stats, workers, transport_events,
                   em_now, emit_calls, pulled, transport_type, send_log>>

\* emit with an except clause for queue.Full alone.
EmitOutcome_uncaught(ev, q) ==
    IF ev = "bad" THEN "raised" ELSE IF QueueFull(q) THEN "dropped" ELSE "queued"

\* How the try block of emit ends: the event is queued, put_nowait raises
\* queue.Full, or anything else raises and 'except Exception' catches it;
\* nothing is left to raise to the caller.
EmitOutcome(ev, q) ==
    IF ev = "bad" THEN "error" ELSE IF QueueFull(q) THEN "dropped" ELSE "queued"

\* emit(event): ev is a dict, or a value that item assignment raises on;
\* t is the reading of time.time().
Emit ==
    /\ UNCHANGED nonEmitterVars
    /\ \E ev \in {"dict", "bad"}, t \in {em_now, em_now + 1} :
          IF ~is_running
          THEN UNCHANGED emitterVars
          ELSE /\ emit_calls < MaxEmits
               /\ emit_calls' = emit_calls + 1
               /\ em_now' = t
               /\ IF EmitOutcome(ev, event_queue) = "raised"
                  THEN UNCHANGED <<stats, event_queue>>
                  ELSE IF EmitOutcome(ev, event_queue) = "error"
                  THEN /\ stats' = [stats EXCEPT !.errors = @ + 1]
                       /\ UNCHANGED event_queue
                  ELSE IF EmitOutcome(ev, event_queue) = "dropped"
                  THEN /\ stats' = [stats EXCEPT !.dropped_events = @ + 1]
                       /\ UNCHANGED event_queue
                  ELSE /\ event_queue' =
                             Append(event_queue,
                                    [event_id |-> generate_event_id(t),
                                     call |-> emit_calls + 1])
                       /\ stats' = [stats EXCEPT !.events_emitted = @ + 1]
               /\ UNCHANGED <<is_running, workers, transport_events, stop_pc, pulled,
                              transport_type, transport_closed, send_log>>

\* _batch_worker at 'while self.is_running:'; when the flag is down the
\* remaining batch is sent and the thread ends.
WorkerCheck(w) ==
    /\ UNCHANGED nonEmitterVars
    /\ workers[w].pc = "check"
    /\ IF is_running
       THEN /\ workers' = [workers EXCEPT ![w].pc = "get"]
            /\ UNCHANGED <<stats, transport_events, send_log>>
       ELSE \E ok \in SendResults :
               /\ workers' = [workers EXCEPT ![w] = [pc |-> "dead", batch |-> <<>>]]
               /\ stats' = SendStats(stats, workers[w].batch, ok)
               /\ transport_events' =
                     SendTransport(transport_events, workers[w].batch, ok)
               /\ send_log' = SendLogged(send_log, workers[w].batch)
    /\ UNCHANGED <<is_running, event_queue, stop_pc, em_now, emit_calls, pulled,
                   transport_type, transport_closed>>

\* event_queue.get(timeout=1.0) returns an event: append it, and send the
\* batch when it is full or batch_timeout has elapsed since the last send.
WorkerGet(w) ==
    /\ UNCHANGED nonEmitterVars
    /\ workers[w].pc = "get"
    /\ event_queue # <<>>
    /\ \E elapsed \in BOOLEAN, ok \in SendResults :
          LET batch == Append(workers[w].batch, Head(event_queue))
              send == Len(batch) >= BatchSize \/ elapsed
          IN /\ workers' = [workers EXCEPT
                               ![w] = [pc |-> "check",
                                       batch |-> IF send THEN <<>> ELSE batch]]
             /\ stats' = IF send THEN SendStats(stats, batch, ok) ELSE stats
             /\ transport_events' =
                   IF send THEN SendTransport(transport_events, batch, ok)
                   ELSE transport_events
             /\ send_log' = IF send THEN SendLogged(send_log, batch) ELSE send_log
    /\ event_queue' = Tail(event_queue)
    /\ pulled' = pulled + 1
    /\ UNCHANGED <<is_running, stop_pc, em_now, emit_calls, transport_type,
                   transport_closed>>

\* event_queue.get(timeout=1.0) raises queue.Empty: send a non-empty batch
\* when batch_timeout has elapsed, then continue.
WorkerTimeout(w) ==
    /\ UNCHANGED nonEmitterVars
    /\ workers[w].pc = "get"
    /\ event_queue = <<>>
    /\ \E elapsed \in BOOLEAN, ok \in SendResults :
          LET batch == workers[w].batch
              send == batch # <<>> /\ elapsed
          IN /\ workers' = [workers EXCEPT
                               ![w] = [pc |-> "check",
                                       batch |-> IF send THEN <<>> ELSE batch]]
             /\ stats' = IF send THEN SendStats(stats, batch, ok) ELSE stats
             /\ transport_events' =
                   IF send THEN SendTransport(transport_events, batch, ok)
                   ELSE transport_events
             /\ send_log' = IF send THEN SendLogged(send_log, batch) ELSE send_log
    /\ UNCHANGED <<is_running, event_queue, stop_pc, em_now, emit_calls, pulled,
                   transport_type, transport_closed>>

NextEmitter ==
    \/ Start
    \/ StopBegin
    \/ StopJoin
    \/ Emit
    \/ \E w \in 1..Len(workers) : WorkerCheck(w)
    \/ \E w \in 1..Len(workers) : WorkerGet(w)
    \/ \E w \in 1..Len(workers) : WorkerTimeout(w)

--------------------------------------------------------------------------
(* Alert engine: AlertEngine and its queries *)

\* A text is a tuple of string tokens; an f-string concatenates its parts.
\* A time window 'Nu' is the pair <<N, u>> of its digits and its unit.
FmtWindow(w) == <<ToString(w[1]), w[2]>>

\* format(x, '.1f') of a rational x >= 0: x rounded to tenths.
Tenths(p) == (20 * p[1] + p[2]) \div (2 * p[2])

FmtFixed1(p) == <<ToString(Tenths(p) \div 10), ".", ToString(Tenths(p) % 10)>>

FracGreater(p, q) == p[1] * q[2] > q[1] * p[2]

\* A time-window string as the caller may pass it: its last character
\* (suffix, "" when there is none beside the digits) and what stands before
\* it, Some(N) for the decimal digits of N and None for anything int()
\* rejects, the empty text included.  '30m' is <<Some(30), m>>, 'xh' is
\* <<None, h>>, 'm' is <<None, m>>, '45' is <<Some(45), "">>, '' is
\* <<None, "">> and 'abc' is <<None, c>>.
WindowText(digits, suffix) == [digits |-> digits, suffix |-> suffix]

\* What a call gives: a value, or an exception that reaches the caller.
Returns(v) == [raises |-> FALSE, value |-> v]

Raises == [raises |-> TRUE, value |-> 0]

\* int(text[:-1]) * k, or int(text[:-1]) // -k for a negative k.
IntTimes(digits, k) ==
    IF digits = None THEN Raises
    ELSE IF k > 0 THEN Returns(digits[1] * k)
    ELSE Returns(digits[1] \div (-k))

\* MetricsAnalyzer._parse_time_window: hours.
parse_time_window(text) ==
    IF text.suffix = "h" THEN IntTimes(text.digits, 1)
    ELSE IF text.suffix = "d" THEN IntTimes(text.digits, 24)
    ELSE IF text.suffix = "m" THEN IntTimes(text.digits, -60)
    ELSE Returns(24)

\* AlertEngine._parse_time_window_minutes on any string: int() of the whole
\* string is inside a try, the two int() calls of the suffix branches are not.
ParseMinutes(text) ==
    IF text.suffix = "m" THEN IntTimes(text.digits, 1)
    ELSE IF text.suffix = "h" THEN IntTimes(text.digits, 60)
    ELSE IF text.suffix = "" /\ text.digits # None THEN Returns(text.digits[1])
    ELSE Returns(5)

\* _parse_time_window_minutes on a configured window <<N, u>>: 'Nm', 'Nh',
\* plain digits, and the fallback of 5 minutes for anything else.
parse_time_window_minutes(w) == ParseMinutes(WindowText(Some(w[1]), w[2])).value

\* datetime.now() - timedelta(minutes=minutes), as a timestamp.
WindowCutoff(now, w) == now - parse_time_window_minutes(w) * 60

\* SELECT ... FROM api_events WHERE timestamp > ?
RowsSince(rows, cutoff) == {r \in rows : r.timestamp > cutoff}

\* CASE WHEN status_code >= 400 OR error IS NOT NULL
IsErrorRow(r) ==
    (r.status_code # None /\ r.status_code[1] >= 400) \/ r.error # None

\* _get_error_rate: errors / total * 100, and 0.0 for an empty window.
get_error_rate(rows, now, w) ==
    LET inw == RowsSince(rows, WindowCutoff(now, w))
        total == Cardinality(inw)
        errors == Cardinality({r \in inw : IsErrorRow(r)})
    IN IF total = 0 THEN <<0, 1>> ELSE Frac(100 * errors, total)

\* _get_request_rate: COUNT(*) / minutes.
get_request_rate(rows, now, w) ==
    Frac(Cardinality(RowsSince(rows, WindowCutoff(now, w))),
         parse_time_window_minutes(w))

RECURSIVE SumLatency(_)
SumLatency(rows) ==
    IF rows = {} THEN 0
    ELSE LET r == CHOOSE x \in rows : TRUE
         IN r.latency_ms + SumLatency(rows \ {r})

\* _get_avg_latency: AVG(latency_ms), None over an empty window.
get_avg_latency(rows, now, w) ==
    LET inw == RowsSince(rows, WindowCutoff(now, w))
    IN IF inw = {} THEN None ELSE Some(Frac(SumLatency(inw), Cardinality(inw)))

\* The comparison with >= in place of >.
Exceeds_or_equal(value, threshold) == ~FracGreater(<<threshold, 1>>, value)

\* value > threshold
Exceeds(value, threshold) == FracGreater(value, <<threshold, 1>>)

\* The ratio current / baseline * 100 in place of the increase.
SpikeIncrease_ratio(current, baseline) ==
    Frac(100 * current[1] * baseline[2], current[2] * baseline[1])

\* ((current_rate - baseline_rate) / baseline_rate) * 100
SpikeIncrease(current, baseline) ==
    Frac(100 * (current[1] * baseline[2] - baseline[1] * current[2]),
         current[2] * baseline[1])

\* What check_traffic_spike does with the two rates: skip, raise, alert, quiet.
SpikeOutcome(current, baseline, threshold) ==
    IF current = None \/ baseline = None \/ baseline = Some(<<0, 1>>) THEN "skip"
    ELSE IF baseline[1][1] = 0 THEN "ZeroDivisionError"
    ELSE IF Exceeds(SpikeIncrease(current[1], baseline[1]), threshold) THEN "alert"
    ELSE "quiet"

\* f"{alert_type}:{message}"
AlertId(alert_type, message) == alert_type \o <<":">> \o message

\* alert_id in self.alerts_sent, with the test dropped.
AlreadySent_never(alert_id, sent) == FALSE

\* alert_id in self.alerts_sent
AlreadySent(alert_id, sent) == alert_id \in sent

BagAdd(b, x) == IF x \in DOMAIN b THEN [b EXCEPT ![x] = @ + 1] ELSE b @@ (x :> 1)

BagCount(b, x) == IF x \in DOMAIN b THEN b[x] ELSE 0

\* A for loop that an exception of notifier.send leaves: the sends up to
\* the first one that raises.
Attempts_stop_at_failure(notifiers, raises) ==
    LET n == Len(notifiers)
        first == IF \E i \in 1..n : raises[i]
                 THEN CHOOSE i \in 1..n : raises[i] /\ \A j \in 1..(i - 1) : ~raises[j]
                 ELSE n
    IN [i \in 1..first |-> [notifier |-> notifiers[i], raised |-> raises[i]]]

\* for notifier in self.notifiers: try: notifier.send(...) except Exception:
\* the send calls made, in order, raises[i] telling whether the i-th raised.
Attempts(notifiers, raises) ==
    [i \in 1..Len(notifiers) |-> [notifier |-> notifiers[i], raised |-> raises[i]]]

\* The send calls of one _send_alert added to the calls made so far.
RECURSIVE NotifyAll(_, _, _)
NotifyAll(d, attempts, pair) ==
    IF attempts = <<>> THEN d
    ELSE NotifyAll(BagAdd(d, <<Head(attempts).notifier, pair[1], pair[2]>>),
                   Tail(attempts), pair)

\* _send_alert(alert_type, message)
SendAlert(alert_type, message) ==
    LET alert_id == AlertId(alert_type, message)
        pair == <<alert_type, message>>
    IN /\ sent_bag' = BagAdd(sent_bag, pair)
       /\ IF AlreadySent(alert_id, alerts_sent)
          THEN /\ last_sends' = <<>>
               /\ UNCHANGED <<alerts_sent, deliveries, id_owner>>
          ELSE /\ alerts_sent' = alerts_sent \cup {alert_id}
               /\ \E raises \in [1..Len(config.notifiers) -> BOOLEAN] :
                     LET attempts == Attempts(config.notifiers, raises)
                     IN /\ deliveries' = NotifyAll(deliveries, attempts, pair)
                        /\ last_sends' = attempts
               /\ id_owner' = id_owner @@ (alert_id :> [pair |-> pair, at |-> al_now])

NoAlert ==
    /\ last_sends' = <<>>
    /\ UNCHANGED <<alerts_sent, sent_bag, deliveries, id_owner>>

\* The steps taken so far, the clock steps being fifteen minutes each.
AlertSteps == n_checks + n_direct + n_ingests + (al_now - 100000) \div 900

\* The configuration defaults: thresholds of config/defaults.py, the console
\* notifier alone, and a deduplication window nothing reads.
DefaultConfig ==
    [latency |-> [value |-> 1000, time_window |-> <<5, "m">>],
     error_rate |-> [value |-> 5, time_window |-> <<10, "m">>],
     traffic_spike |-> [value |-> 100, time_window |-> <<5, "m">>],
     notifiers |-> <<"console">>,
     deduplication_window_minutes |-> 15]

Configs ==
    {DefaultConfig,
     [latency |-> [value |-> 100, time_window |-> <<1, "h">>],
      error_rate |-> [value |-> 20, time_window |-> <<10, "m">>],
      traffic_spike |-> [value |-> 100, time_window |-> <<20, "m">>],
      notifiers |-> <<"slack", "console">>,
      deduplication_window_minutes |-> 1]}

InitAlertEngine(cfgs) ==
    /\ config \in cfgs
    /\ al_now = 100000
    /\ alerts_sent = {}
    /\ sent_bag = <<>>
    /\ deliveries = <<>>
    /\ last_sends = <<>>
    /\ id_owner = <<>>
    /\ last_check = [kind |-> "none", value |-> None, outcome |-> "none", at |-> 0]
    /\ n_checks = 0
    /\ n_direct = 0
    /\ n_ingests = 0

\* run_checks: the check that follows a check, the sleep after the last one.
NextCheck(check) ==
    CASE check = "latency" -> "error_rate"
      [] check = "error_rate" -> "traffic_spike"
      [] check = "traffic_spike" -> "sleep"

\* Who runs a check: the scheduler's loop when it stands at that check, which
\* then moves on, or else another caller of the engine.
RunCheck(check) ==
    IF sc_pc = check
    THEN /\ sc_pc' = NextCheck(check)
         /\ UNCHANGED <<stop_event, sc_stop_pc, sc_cycles, sc_errors>>
    ELSE /\ AlertSteps < MaxAlertSteps
         /\ UNCHANGED schedulerVars

\* check_latency_threshold
CheckLatency ==
    /\ UNCHANGED nonAlertVars
    /\ RunCheck("latency")
    /\ n_checks' = n_checks + 1
    /\ LET cfg == config.latency
           avg == get_avg_latency(visible.api_events, al_now, cfg.time_window)
           fire == avg # None /\ Exceeds(avg[1], cfg.value)
       IN /\ last_check' = [kind |-> "latency", value |-> avg,
                            outcome |-> IF avg = None THEN "skip"
                                        ELSE IF fire THEN "alert" ELSE "quiet",
                            at |-> al_now]
          /\ IF fire
             THEN SendAlert(<<"High Latency">>,
                            <<"Average latency ">> \o FmtFixed1(avg[1])
                              \o <<"ms exceeds threshold ", ToString(cfg.value),
                                   "ms over ">> \o FmtWindow(cfg.time_window))
             ELSE NoAlert
    /\ UNCHANGED <<config, al_now, n_direct, n_ingests>>

\* check_error_rate
CheckErrorRate ==
    /\ UNCHANGED nonAlertVars
    /\ RunCheck("error_rate")
    /\ n_checks' = n_checks + 1
    /\ LET cfg == config.error_rate
           rate == get_error_rate(visible.api_events, al_now, cfg.time_window)
           fire == Exceeds(rate, cfg.value)
       IN /\ last_check' = [kind |-> "error_rate", value |-> Some(rate),
                            outcome |-> IF fire THEN "alert" ELSE "quiet",
                            at |-> al_now]
          /\ IF fire
             THEN SendAlert(<<"High Error Rate">>,
                            <<"Error rate ">> \o FmtFixed1(rate)
                              \o <<"% exceeds threshold ", ToString(cfg.value),
                                   "% over ">> \o FmtWindow(cfg.time_window))
             ELSE NoAlert
    /\ UNCHANGED <<config, al_now, n_direct, n_ingests>>

\* check_traffic_spike
CheckTrafficSpike ==
    /\ UNCHANGED nonAlertVars
    /\ RunCheck("traffic_spike")
    /\ n_checks' = n_checks + 1
    /\ LET cfg == config.traffic_spike
           current == Some(get_request_rate(visible.api_events, al_now, cfg.time_window))
           baseline == Some(get_request_rate(visible.api_events, al_now, <<1, "h">>))
           outcome == SpikeOutcome(current, baseline, cfg.value)
       IN /\ last_check' = [kind |-> "traffic_spike",
                            value |-> IF outcome \in {"alert", "quiet"}
                                      THEN Some(SpikeIncrease(current[1], baseline[1]))
                                      ELSE None,
                            outcome |-> outcome, at |-> al_now]
          /\ IF outcome = "alert"
             THEN SendAlert(<<"Traffic Spike">>,
                            <<"Traffic rate increased by ">>
                              \o FmtFixed1(SpikeIncrease(current[1], baseline[1]))
                              \o <<"% over baseline in ">> \o FmtWindow(cfg.time_window))
             ELSE NoAlert
    /\ UNCHANGED <<config, al_now, n_direct, n_ingests>>

\* Alert types and messages of _send_alert calls made by other callers.
DirectAlerts ==
    {<<<<"a">>, <<"b", ":", "c">>>>,
     <<<<"a", ":", "b">>, <<"c">>>>}

\* _send_alert(alert_type, message) called directly.
SendAlertDirect ==
    /\ UNCHANGED nonAlertVars
    /\ UNCHANGED schedulerVars
    /\ AlertSteps < MaxAlertSteps
    /\ n_direct' = n_direct + 1
    /\ \E pair \in DirectAlerts : SendAlert(pair[1], pair[2])
    /\ UNCHANGED <<config, al_now, last_check, n_checks, n_ingests>>

\* Fifteen minutes pass between two calls.
AlertTick ==
    /\ UNCHANGED nonAlertVars
    /\ UNCHANGED schedulerVars
    /\ AlertSteps < MaxAlertSteps
    /\ al_now' = al_now + 900
    /\ last_sends' = <<>>
    /\ UNCHANGED <<config, alerts_sent, sent_bag, deliveries, id_owner, last_check,
                   n_checks, n_direct, n_ingests>>

\* The batches stored beside the engine: a number of like events, each a
\* (timestamp, status_code, error, latency_ms) seconds old, at the ten-minute
\* cutoff, or inside the hour.
AlertBatches ==
    {<<8, <<99990, Some(200), None, 100>>>>,
     <<5, <<99990, Some(200), None, 100>>>>,
     <<2, <<99990, Some(500), None, 3000>>>>,
     <<1, <<99990, None, Some("boom"), 100>>>>,
     <<1, <<99400, Some(500), None, 3000>>>>,
     <<1, <<97000, Some(200), None, 100>>>>}

AlertEvent(id, kind) ==
    [event_id |-> id, timestamp |-> kind[1], service_name |-> "svc",
     endpoint |-> "/users", method |-> "GET", host |-> <<"db", "internal">>,
     status_code |-> kind[2], latency_ms |-> kind[4],
     request_size |-> 10, response_size |-> 20, error |-> kind[3]]

\* A whole store_events(batch) call on the database db.
RECURSIVE StoreAll(_, _)
StoreAll(db, batch) ==
    IF batch = <<>> THEN db
    ELSE LET e == Head(batch)
             rows == store_api_event(db.rows, db.rowid, e)
         IN StoreAll([rows |-> rows,
                      rowid |-> IF rows = db.rows THEN db.rowid ELSE db.rowid + 1,
                      buckets |-> update_endpoint_metrics(db.buckets, e),
                      deps |-> IF EdgeFlagRaises(e) THEN db.deps
                               ELSE update_service_dependencies(db.deps, e),
                      folded |-> Fold(db.folded, e),
                      edge_folded |-> IF EdgeFlagRaises(e) THEN db.edge_folded
                                      ELSE FoldEdge(db.edge_folded, e)],
                     Tail(batch))

\* The collector stores a batch of like events between two checks.
Ingest ==
    /\ UNCHANGED <<emitterVars, collectorVars, drainVars, redisVars, schedulerVars, windowVars, udpVars>>
    /\ st_pc = "idle"
    /\ AlertSteps < MaxAlertSteps
    /\ n_ingests' = n_ingests + 1
    /\ \E b \in AlertBatches :
          /\ LET batch == [i \in 1..b[1] |->
                             AlertEvent(Some(ToString(next_rowid + i - 1)), b[2])]
                 db == StoreAll([rows |-> api_events, rowid |-> next_rowid,
                                 buckets |-> endpoint_metrics,
                                 deps |-> service_dependencies,
                                 folded |-> folded, edge_folded |-> edge_folded], batch)
             IN /\ api_events' = db.rows
                /\ next_rowid' = db.rowid
                /\ endpoint_metrics' = db.buckets
                /\ service_dependencies' = db.deps
                /\ folded' = db.folded
                /\ edge_folded' = db.edge_folded
                /\ visible' = DbState(db.rows, db.buckets, db.deps)
    /\ UNCHANGED <<in_transaction, st_pc, st_batch, st_idx, stored_count, st_result,
                   st_ignored, cutoff_time, purged, submitted, cleanups>>
    /\ last_sends' = <<>>
    /\ UNCHANGED <<config, al_now, alerts_sent, sent_bag, deliveries, id_owner,
                   last_check, n_checks, n_direct>>

NextAlert ==
    \/ CheckLatency
    \/ CheckErrorRate
    \/ CheckTrafficSpike
    \/ SendAlertDirect
    \/ AlertTick
    \/ Ingest

--------------------------------------------------------------------------
(* UDP collector: UDPCollector._fetch_events inside the collect loop *)

\* The model follows the last MaxUdpTail events of a list.
MaxUdpTail == 2

\* What a datagram holds: the JSON text of an event, or bytes json.loads rejects.
Datagrams == {"e1", "e2", "garbage"}

InitUdp ==
    /\ udp_pc = "idle"
    /\ udp_running = FALSE
    /\ udp_closed = FALSE
    /\ udp_events = <<>>
    /\ udp_returned = <<>>

UdpFrame ==
    UNCHANGED <<storageVars, emitterVars, alertVars, collectorVars, drainVars,
                redisVars, schedulerVars, windowVars>>

\* events.append(event), the list seen through its last MaxUdpTail events.
UdpAppend(events, event) ==
    LET all == Append(events, event)
    IN IF Len(all) <= MaxUdpTail THEN all
       ELSE SubSeq(all, Len(all) - MaxUdpTail + 1, Len(all))

\* start(): the socket is bound, running is set and the loop is entered.
UdpStart ==
    /\ UdpFrame
    /\ udp_pc = "idle"
    /\ udp_running' = TRUE
    /\ udp_pc' = "loop"
    /\ UNCHANGED <<udp_closed, udp_events, udp_returned>>

\* while self.running: events = self._fetch_events(), up to its first
\* recvfrom: the timeout is set and the list is empty.
UdpFetchBegin ==
    /\ UdpFrame
    /\ udp_pc = "loop"
    /\ IF udp_running
       THEN udp_pc' = "recv" /\ udp_events' = <<>>
       ELSE udp_pc' = "stopped" /\ UNCHANGED udp_events
    /\ UNCHANGED <<udp_running, udp_closed, udp_returned>>

\* recvfrom returns a datagram that came within the timeout: its event is
\* appended, or the parse error is logged, and the while True loop goes on.
UdpDatagram ==
    /\ UdpFrame
    /\ udp_pc = "recv"
    /\ ~udp_closed
    /\ \E data \in Datagrams :
          udp_events' = IF data = "garbage" THEN udp_events
                        ELSE UdpAppend(udp_events, data)
    /\ UNCHANGED <<udp_pc, udp_running, udp_closed, udp_returned>>

\* recvfrom raises socket.timeout, no datagram having come for 0.1 s:
\* _fetch_events returns its list and the loop sleeps and tests running.
UdpTimeout ==
    /\ UdpFrame
    /\ udp_pc = "recv"
    /\ udp_returned' = udp_events
    /\ udp_pc' = "loop"
    /\ UNCHANGED <<udp_running, udp_closed, udp_events>>

\* recvfrom on the socket stop() has closed raises OSError, which is not
\* socket.timeout: it leaves _fetch_events, the loop and start().
UdpRecvClosed ==
    /\ UdpFrame
    /\ udp_pc = "recv"
    /\ udp_closed
    /\ udp_pc' = "raised"
    /\ UNCHANGED <<udp_running, udp_closed, udp_events, udp_returned>>

\* stop(), from another thread: running is cleared and the socket closed.
UdpStop ==
    /\ UdpFrame
    /\ udp_pc \in {"loop", "recv"}
    /\ udp_running
    /\ udp_running' = FALSE
    /\ udp_closed' = TRUE
    /\ UNCHANGED <<udp_pc, udp_events, udp_returned>>

\* The steps of the thread start() runs in.
UdpThread ==
    \/ UdpFetchBegin
    \/ UdpDatagram
    \/ UdpTimeout
    \/ UdpRecvClosed

NextUdp ==
    \/ UdpStart
    \/ UdpFetchBegin
    \/ UdpDatagram
    \/ UdpTimeout
    \/ UdpRecvClosed
    \/ UdpStop

--------------------------------------------------------------------------
(* Scheduler: alerting/scheduler.py *)

\* interval_seconds=60
SchedInterval == 60

InitScheduler ==
    /\ sc_pc = "none"
    /\ stop_event = FALSE
    /\ sc_stop_pc = "none"
    /\ sc_cycles = 0
    /\ sc_errors = 0

\* start(), called when no stop() is under way: with a live thread it only
\* warns; otherwise the event is cleared and the thread started.
SchedulerStart ==
    /\ UNCHANGED <<nonAlertVars, alertVars>>
    /\ sc_stop_pc # "join"
    /\ IF sc_pc \in {"none", "finished"}
       THEN /\ stop_event' = FALSE
            /\ sc_pc' = "test"
            /\ sc_stop_pc' = "none"
       ELSE UNCHANGED <<stop_event, sc_pc, sc_stop_pc>>
    /\ UNCHANGED <<sc_cycles, sc_errors>>

\* while not self._stop_event.is_set()
RunLoopTest ==
    /\ UNCHANGED <<nonAlertVars, alertVars>>
    /\ sc_pc = "test"
    /\ IF stop_event
       THEN sc_pc' = "finished" /\ UNCHANGED sc_cycles
       ELSE /\ sc_cycles < MaxCycles
            /\ sc_cycles' = sc_cycles + 1
            /\ sc_pc' = "latency"
    /\ UNCHANGED <<stop_event, sc_stop_pc, sc_errors>>

\* A loop without the try: the exception ends the thread.
AfterCycleError_uncaught == "finished"

\* except Exception: the error is logged and the loop goes on to its sleep.
AfterCycleError == "sleep"

\* A check of run_checks raises: the rest of the cycle's checks are not run.
RunChecksRaises ==
    /\ UNCHANGED <<nonAlertVars, alertVars>>
    /\ sc_pc \in {"latency", "error_rate", "traffic_spike"}
    /\ sc_errors' = sc_errors + 1
    /\ sc_pc' = AfterCycleError
    /\ UNCHANGED <<stop_event, sc_stop_pc, sc_cycles>>

\* time.sleep(self.interval)
RunLoopSleep ==
    /\ UNCHANGED nonAlertVars
    /\ sc_pc = "sleep"
    /\ sc_pc' = "test"
    /\ al_now' = al_now + SchedInterval
    /\ last_sends' = <<>>
    /\ UNCHANGED <<config, alerts_sent, sent_bag, deliveries, id_owner, last_check,
                   n_checks, n_direct, n_ingests>>
    /\ UNCHANGED <<stop_event, sc_stop_pc, sc_cycles, sc_errors>>

\* stop() up to its join: without a thread it returns, otherwise the event is set.
SchedulerStop ==
    /\ UNCHANGED <<nonAlertVars, alertVars>>
    /\ sc_stop_pc # "join"
    /\ IF sc_pc = "none"
       THEN sc_stop_pc' = "returned" /\ UNCHANGED stop_event
       ELSE stop_event' = TRUE /\ sc_stop_pc' = "join"
    /\ UNCHANGED <<sc_pc, sc_cycles, sc_errors>>

\* A join with a timeout, which returns whatever the thread is doing.
JoinReturns_with_timeout(pc) == TRUE

\* self.thread.join(): returns once the thread has ended.
JoinReturns(pc) == pc = "finished"

\* stop() from its join on.
SchedulerJoin ==
    /\ UNCHANGED <<nonAlertVars, alertVars>>
    /\ sc_stop_pc = "join"
    /\ JoinReturns(sc_pc)
    /\ sc_stop_pc' = "returned"
    /\ UNCHANGED <<sc_pc, stop_event, sc_cycles, sc_errors>>

\* The steps of the loop's thread.
RunLoop ==
    \/ RunLoopTest
    \/ (sc_pc \in {"latency", "error_rate", "traffic_spike"}
          /\ (CheckLatency \/ CheckErrorRate \/ CheckTrafficSpike \/ RunChecksRaises))
    \/ RunLoopSleep

NextScheduler ==
    \/ SchedulerStart
    \/ RunLoopTest
    \/ CheckLatency
    \/ CheckErrorRate
    \/ CheckTrafficSpike
    \/ RunChecksRaises
    \/ RunLoopSleep
    \/ SchedulerStop
    \/ SchedulerJoin

--------------------------------------------------------------------------
(* Time windows: MetricsAnalyzer and AlertEngine called with a window string *)

\* The numbers and last characters of the window strings passed in.
WindowNumbers == {1, 7, 30}

WindowSuffixes == {"m", "h", "d", "", "c"}

WindowTexts ==
    {WindowText(d, u) : d \in {None} \cup {Some(n) : n \in WindowNumbers},
                        u \in WindowSuffixes}

InitWindows ==
    tw_call = [fn |-> "none", window |-> WindowText(None, ""),
               result |-> Returns(0), rows |-> {}]

WindowFrame ==
    UNCHANGED <<storageVars, emitterVars, alertVars, collectorVars, drainVars,
                redisVars, schedulerVars, udpVars>>

\* MetricsAnalyzer._parse_time_window(time_window)
ParseTimeWindow ==
    /\ WindowFrame
    /\ \E text \in WindowTexts :
          tw_call' = [fn |-> "_parse_time_window", window |-> text,
                      result |-> parse_time_window(text), rows |-> {}]

\* AlertEngine._parse_time_window_minutes(window_str)
ParseTimeWindowMinutes ==
    /\ WindowFrame
    /\ \E text \in WindowTexts :
          tw_call' = [fn |-> "_parse_time_window_minutes", window |-> text,
                      result |-> ParseMinutes(text), rows |-> {}]

\* MetricsAnalyzer.get_overview_metrics(time_window): total_requests over the
\* rows WHERE timestamp > now - timedelta(hours=hours).
GetOverviewMetrics ==
    /\ WindowFrame
    /\ \E text \in WindowTexts :
          LET hours == parse_time_window(text)
              rows == RowsSince(visible.api_events,
                                al_now - hours.value * SecondsPerHour)
          IN tw_call' = IF hours.raises
                        THEN [fn |-> "get_overview_metrics", window |-> text,
                              result |-> Raises, rows |-> {}]
                        ELSE [fn |-> "get_overview_metrics", window |-> text,
                              result |-> Returns(Cardinality(rows)), rows |-> rows]

\* AlertEngine._get_error_rate(time_window): COUNT(*) over the rows WHERE
\* timestamp > now - timedelta(minutes=minutes).
GetErrorRate ==
    /\ WindowFrame
    /\ \E text \in WindowTexts :
          LET minutes == ParseMinutes(text)
              rows == RowsSince(visible.api_events, al_now - minutes.value * 60)
          IN tw_call' = IF minutes.raises
                        THEN [fn |-> "_get_error_rate", window |-> text,
                              result |-> Raises, rows |-> {}]
                        ELSE [fn |-> "_get_error_rate", window |-> text,
                              result |-> Returns(Cardinality(rows)), rows |-> rows]

\* The collector stores a batch between two calls.
WindowIngest ==
    /\ n_ingests < MaxWindowIngests
    /\ Ingest

\* The two components on a database the collector fills.
NextWindows ==
    \/ WindowIngest
    \/ ParseTimeWindow
    \/ ParseTimeWindowMinutes
    \/ GetOverviewMetrics
    \/ GetErrorRate

--------------------------------------------------------------------------
(* Collector: EventValidator and BaseCollector *)

\* A Python value of a raw event: None, a number or a string.
Num(n) == <<"num", n>>

Str(x) == <<"str", x>>

IsNum(v) == v # None /\ v[1] = "num"

IsStr(v) == v # None /\ v[1] = "str"

REQUIRED_FIELDS ==
    {"event_id", "timestamp", "event_type", "service_name",
     "method", "url", "endpoint", "host"}

VALID_EVENT_TYPES == {"http_request", "incoming_request", "system_metric"}

VALID_METHODS == {"GET", "POST", "PUT", "DELETE", "PATCH", "HEAD", "OPTIONS"}

\* str.upper() on the method texts that occur.
Upper(x) == IF x = "get" THEN "GET" ELSE x

\* str.strip() on the method texts that occur.
Strip(x) == IF x = " GET " THEN "GET" ELSE x

\* event.get(key): None for an absent key.
Get(e, key) == IF key \in e.keys THEN e[key] ELSE None

\* A raw event: the keys it has and the values of the keys that are read.
RawEvent(id) ==
    [keys |-> REQUIRED_FIELDS \cup {"status_code", "latency_ms"},
     event_id |-> Str(id), event_type |-> Str("http_request"),
     method |-> Str("GET"), timestamp |-> Num(86400),
     status_code |-> Num(200), latency_ms |-> Num(5)]

\* What _fetch_events may return: a well-formed event and fetched that are
\* off in one field each.
RawPool ==
    {RawEvent("ok"),
     [RawEvent("lower") EXCEPT !.method = Str("get")],
     [RawEvent("empty") EXCEPT !.method = Str("")],
     [RawEvent("padded") EXCEPT !.method = Str(" GET ")],
     [RawEvent("fetch") EXCEPT !.method = Str("FETCH")],
     [RawEvent("nomethod") EXCEPT !.method = None],
     [RawEvent("nourl") EXCEPT !.keys = @ \ {"url"}],
     [RawEvent("type") EXCEPT !.event_type = Str("metric")],
     [RawEvent("ts") EXCEPT !.timestamp = Str("now")],
     [RawEvent("status99") EXCEPT !.status_code = Num(99)],
     [RawEvent("statusstr") EXCEPT !.status_code = Str("200")],
     [RawEvent("nostatus") EXCEPT !.keys = @ \ {"status_code"}],
     [RawEvent("latency") EXCEPT !.latency_ms = Num(-1)]}

\* A truthy method: neither None nor ''.
TruthyMethod(e) == Get(e, "method") # None /\ Get(e, "method") # Str("")

\* 100 <= status_code <= 599 on a string: TypeError.
ValidateRaises(e) == IsStr(Get(e, "status_code"))

\* The errors list of validate_event.
ValidationErrors(e) ==
    (IF REQUIRED_FIELDS \ e.keys # {} THEN {"missing"} ELSE {})
    \cup (IF Get(e, "event_type") \notin {Str(t) : t \in VALID_EVENT_TYPES}
          THEN {"event_type"} ELSE {})
    \cup (IF TruthyMethod(e) /\ Upper(Get(e, "method")[2]) \notin VALID_METHODS
          THEN {"method"} ELSE {})
    \cup (IF ~IsNum(Get(e, "timestamp")) THEN {"timestamp"} ELSE {})
    \cup (IF Get(e, "status_code") # None
             /\ ~(100 <= Get(e, "status_code")[2] /\ Get(e, "status_code")[2] <= 599)
          THEN {"status_code"} ELSE {})
    \cup (IF Get(e, "latency_ms") # None
             /\ (~IsNum(Get(e, "latency_ms")) \/ Get(e, "latency_ms")[2] < 0)
          THEN {"latency_ms"} ELSE {})

\* validate_event: whether the errors list is empty.
validate_event(e) == ValidationErrors(e) = {}

\* sanitized['method'].upper() on None: AttributeError.
SanitizeRaises(e) == "method" \in e.keys /\ e.method = None

\* sanitize_event: strip and upper-case the method; int() and float() leave
\* the numbers that occur as they are.
sanitize_event(e) ==
    IF "method" \in e.keys /\ IsStr(e.method)
    THEN [e EXCEPT !.method = Str(Upper(Strip(e.method[2])))]
    ELSE e

\* The event as _store_api_event reads it with event.get.
StoredForm(e) ==
    [event_id |-> IF IsStr(Get(e, "event_id")) THEN Some(e.event_id[2]) ELSE None,
     timestamp |-> e.timestamp[2], service_name |-> "svc",
     endpoint |-> "/users",
     method |-> IF IsStr(Get(e, "method")) THEN e.method[2] ELSE "",
     host |-> <<"db", "internal">>,
     status_code |-> IF Get(e, "status_code") = None THEN None
                     ELSE Some(e.status_code[2]),
     latency_ms |-> e.latency_ms[2],
     request_size |-> 10, response_size |-> 20, error |-> None]

InitCollector ==
    /\ running = FALSE
    /\ buffer = <<>>
    /\ fetched = <<>>
    /\ co_pc = "idle"
    /\ sp_pc = "none"
    /\ handed = {}
    /\ buffered = {}
    /\ n_stores = 0
    /\ last_store = "none"
    /\ skipped = {}
    /\ n_fetches = 0
    /\ n_fetched = 0

KeepDatabase ==
    UNCHANGED <<api_events, next_rowid, endpoint_metrics, service_dependencies,
                folded, edge_folded, visible>>

\* store_events(buf): the batch is stored (ok), or the call raises before
\* anything is written, as when the database cannot be opened.
StoreBuffer(buf, ok) ==
    /\ handed' = handed \cup {buf[i] : i \in 1..Len(buf)}
    /\ n_stores' = n_stores + 1
    /\ last_store' = IF ok THEN "returned" ELSE "raised"
    /\ IF ok
       THEN LET db == StoreAll([rows |-> api_events, rowid |-> next_rowid,
                                buckets |-> endpoint_metrics,
                                deps |-> service_dependencies,
                                folded |-> folded, edge_folded |-> edge_folded],
                               [i \in 1..Len(buf) |-> StoredForm(buf[i])])
            IN /\ api_events' = db.rows
               /\ next_rowid' = db.rowid
               /\ endpoint_metrics' = db.buckets
               /\ service_dependencies' = db.deps
               /\ folded' = db.folded
               /\ edge_folded' = db.edge_folded
               /\ visible' = DbState(db.rows, db.buckets, db.deps)
       ELSE KeepDatabase

NoStore == KeepDatabase /\ UNCHANGED <<handed, n_stores, last_store>>

\* A _flush_buffer that clears the buffer only when the store succeeded.
BufferAfterFlush_keep_on_failure(buf, ok) == IF ok THEN <<>> ELSE buf

\* finally: self._buffer.clear()
BufferAfterFlush(buf, ok) == <<>>

\* _flush_buffer on the buffer buf, run by the loop's thread: store_events(buf),
\* then the buffer is cleared; nothing happens on an empty buffer.
FlushBuffer(buf) ==
    IF buf = <<>>
    THEN buffer' = <<>> /\ NoStore
    ELSE \E ok \in BOOLEAN :
            /\ buffer' = BufferAfterFlush(buf, ok)
            /\ StoreBuffer(buf, ok)

CollectorFrame ==
    /\ UNCHANGED <<emitterVars, alertVars, drainVars, redisVars, schedulerVars, windowVars, udpVars>>
    /\ UNCHANGED <<in_transaction, st_pc, st_batch, st_idx, stored_count, st_result,
                   st_ignored, cutoff_time, purged, submitted, cleanups>>

\* start(): running is set and the loop is entered.
CollectorStart ==
    /\ CollectorFrame
    /\ co_pc = "idle"
    /\ running' = TRUE
    /\ co_pc' = "fetch"
    /\ NoStore
    /\ UNCHANGED <<buffer, fetched, sp_pc, buffered, skipped, n_fetches, n_fetched>>

\* The while test of _collect_loop and events = self._fetch_events(); when
\* running is off the loop ends and the finally of start() flushes.
LoopTop ==
    /\ CollectorFrame
    /\ co_pc = "fetch"
    /\ IF running
       THEN /\ n_fetches < MaxFetches
            /\ n_fetches' = n_fetches + 1
            /\ \E n \in 0..(MaxFetched - n_fetched) : \E evs \in [1..n -> RawPool] :
                  /\ fetched' = evs
                  /\ n_fetched' = n_fetched + n
            /\ co_pc' = "for"
            /\ NoStore
            /\ UNCHANGED buffer
       ELSE /\ FlushBuffer(buffer)
            /\ co_pc' = "stopped"
            /\ UNCHANGED <<fetched, n_fetches, n_fetched>>
    /\ UNCHANGED <<running, sp_pc, buffered, skipped>>

\* _add_event_to_buffer(event) for the next event of the for loop; an
\* exception leaves the loop and the finally of start() flushes.
AddEventToBuffer ==
    /\ CollectorFrame
    /\ co_pc = "for"
    /\ fetched # <<>>
    /\ LET event == Head(fetched)
       IN IF ValidateRaises(event) \/ (validate_event(event) /\ SanitizeRaises(event))
          THEN /\ FlushBuffer(buffer)
               /\ co_pc' = "dead"
               /\ fetched' = <<>>
               /\ UNCHANGED <<skipped, buffered>>
          ELSE IF ~validate_event(event)
          THEN /\ skipped' = ValidationErrors(event)
               /\ fetched' = Tail(fetched)
               /\ NoStore
               /\ UNCHANGED <<buffer, co_pc, buffered>>
          ELSE /\ fetched' = Tail(fetched)
               /\ buffered' = buffered \cup {sanitize_event(event)}
               /\ IF Len(buffer) + 1 >= CollectorBatchSize
                  THEN FlushBuffer(Append(buffer, sanitize_event(event)))
                  ELSE /\ buffer' = Append(buffer, sanitize_event(event))
                       /\ NoStore
               /\ UNCHANGED <<skipped, co_pc>>
    /\ UNCHANGED <<running, sp_pc, n_fetches, n_fetched>>

\* The end of one pass of the loop: the flush when batch_interval has
\* elapsed, then the sleep.
LoopEnd ==
    /\ CollectorFrame
    /\ co_pc = "for"
    /\ fetched = <<>>
    /\ \E elapsed \in BOOLEAN :
          IF elapsed THEN FlushBuffer(buffer)
          ELSE NoStore /\ UNCHANGED buffer
    /\ co_pc' = "fetch"
    /\ UNCHANGED <<running, fetched, sp_pc, buffered, skipped, n_fetches, n_fetched>>

\* stop(), called from another thread than the one start() runs in: running
\* is cleared and _flush_buffer gets as far as its store_events call.
CollectorStop ==
    /\ CollectorFrame
    /\ co_pc \in {"fetch", "for"}
    /\ sp_pc = "none"
    /\ running' = FALSE
    /\ IF buffer = <<>>
       THEN sp_pc' = "done" /\ NoStore
       ELSE /\ sp_pc' = "clear"
            /\ \E ok \in BOOLEAN : StoreBuffer(buffer, ok)
    /\ UNCHANGED <<buffer, fetched, co_pc, buffered, skipped, n_fetches, n_fetched>>

\* The finally of stop()'s _flush_buffer: self._buffer.clear(), on the list
\* as it is by then.
CollectorStopClear ==
    /\ CollectorFrame
    /\ sp_pc = "clear"
    /\ buffer' = <<>>
    /\ sp_pc' = "done"
    /\ NoStore
    /\ UNCHANGED <<running, fetched, co_pc, buffered, skipped, n_fetches, n_fetched>>

NextCollector ==
    \/ CollectorStart
    \/ LoopTop
    \/ AddEventToBuffer
    \/ LoopEnd
    \/ CollectorStop
    \/ CollectorStopClear

--------------------------------------------------------------------------
(* Memory collector: MemoryCollector._fetch_events on the MemoryTransport *)

InitDrain ==
    /\ mc_pc = "idle"
    /\ mc_events = <<>>
    /\ mc_returned = {}
    /\ ms_pc = "idle"
    /\ ms_slice = <<>>
    /\ ms_calls = 0

DrainFrame ==
    UNCHANGED <<storageVars, alertVars, collectorVars, redisVars, schedulerVars,
                windowVars, udpVars,
                is_running, event_queue,
                stats, workers, stop_pc, em_now, emit_calls, pulled, transport_type,
                transport_closed, send_log>>

\* events = transport.get_events(): a copy of the list; an empty copy is
\* returned as it is, without a clear.
FetchGetEvents ==
    /\ DrainFrame
    /\ mc_pc = "idle"
    /\ transport_type = "memory"
    /\ mc_events' = transport_events
    /\ mc_pc' = IF transport_events # <<>> THEN "clear" ELSE "idle"
    /\ UNCHANGED <<transport_events, mc_returned, sendVars>>

\* transport.clear() and return events.
FetchClear ==
    /\ DrainFrame
    /\ mc_pc = "clear"
    /\ transport_events' = <<>>
    /\ mc_returned' = mc_returned \cup {mc_events[i].call : i \in 1..Len(mc_events)}
    /\ mc_events' = <<>>
    /\ mc_pc' = "idle"
    /\ UNCHANGED sendVars

\* The emitter and the memory collector running in one process.
NextDrain ==
    \/ NextEmitter
    \/ FetchGetEvents
    \/ FetchClear

\* Events a thread passes to MemoryTransport.send while the collector fetches.
MaxSends == 4

\* The events numbered from + 1 .. from + n, in that order.
SentBatch(from, n) == [i \in 1..n |-> [call |-> from + i]]

\* self.events.extend(batch), for a batch of one to BatchSize events.
SendExtend ==
    /\ DrainFrame
    /\ ms_pc = "idle"
    /\ \E n \in 1..BatchSize :
          /\ ms_calls + n <= MaxSends
          /\ transport_events' = transport_events \o SentBatch(ms_calls, n)
          /\ ms_calls' = ms_calls + n
    /\ ms_pc' = "extended"
    /\ UNCHANGED <<mc_pc, mc_events, mc_returned, ms_slice>>

\* if len(self.events) > self.max_events: otherwise send returns.
SendLen ==
    /\ DrainFrame
    /\ ms_pc = "extended"
    /\ ms_pc' = IF Len(transport_events) > MaxTransportEvents THEN "slice" ELSE "idle"
    /\ UNCHANGED <<transport_events, mc_pc, mc_events, mc_returned, ms_slice, ms_calls>>

\* self.events[-self.max_events:]: a new list of the last max_events elements
\* of the list as it is now, the whole of it when it is shorter.
SendSlice ==
    /\ DrainFrame
    /\ ms_pc = "slice"
    /\ ms_slice' = LET n == Len(transport_events)
                   IN IF n > MaxTransportEvents
                      THEN SubSeq(transport_events, n - MaxTransportEvents + 1, n)
                      ELSE transport_events
    /\ ms_pc' = "rebind"
    /\ UNCHANGED <<transport_events, mc_pc, mc_events, mc_returned, ms_calls>>

\* self.events = <the new list>.
SendRebind ==
    /\ DrainFrame
    /\ ms_pc = "rebind"
    /\ transport_events' = ms_slice
    /\ ms_slice' = <<>>
    /\ ms_pc' = "idle"
    /\ UNCHANGED <<mc_pc, mc_events, mc_returned, ms_calls>>

\* One thread inside MemoryTransport.send and the memory collector's thread,
\* switching between any two statements.
NextTransport ==
    \/ SendExtend
    \/ SendLen
    \/ SendSlice
    \/ SendRebind
    \/ FetchGetEvents
    \/ FetchClear

--------------------------------------------------------------------------
(* Redis collector: RedisCollector on the stream the RedisTransport feeds *)

\* The special id '$', apart from every entry id 1, 2, ...
Dollar == -1

\* The stream holds one entry that predates the collector, whose cursor is
\* the special id '$'.
InitRedis ==
    /\ stream = <<"json">>
    /\ last_id = Dollar
    /\ rd_pc = "idle"
    /\ rd_from = 0
    /\ rd_returned = {}

\* XREAD resolves '$' to the id of the last entry at the time of the call.
ResolveId(id, s) == IF id = Dollar THEN Len(s) ELSE id

\* The entries XREAD hands back: those after the id, count at most.
EntriesAfter(s, id, count) ==
    {i \in 1..Len(s) : i > id /\ i <= id + count}

\* The loop over the entries: last_id ends at the last entry, and the
\* events are the entries whose data parses as JSON.
CursorAfter(id, entries) ==
    IF entries = {} THEN id ELSE CHOOSE i \in entries : \A j \in entries : j <= i

ParsedEvents(s, entries) == {i \in entries : s[i] = "json"}

\* _fetch_events when XREAD finds entries after the cursor and returns at once.
RedisFetch ==
    /\ UNCHANGED nonRedisVars
    /\ rd_pc = "idle"
    /\ LET entries == EntriesAfter(stream, ResolveId(last_id, stream),
                                   CollectorBatchSize)
       IN /\ entries # {}
          /\ last_id' = CursorAfter(last_id, entries)
          /\ rd_returned' = rd_returned \cup ParsedEvents(stream, entries)
    /\ UNCHANGED <<stream, rd_pc, rd_from>>

\* _fetch_events when XREAD finds nothing after the cursor: it blocks.
RedisFetchBlock ==
    /\ UNCHANGED nonRedisVars
    /\ rd_pc = "idle"
    /\ EntriesAfter(stream, ResolveId(last_id, stream), CollectorBatchSize) = {}
    /\ rd_pc' = "blocked"
    /\ rd_from' = ResolveId(last_id, stream)
    /\ UNCHANGED <<stream, last_id, rd_returned>>

\* block=100 runs out: XREAD returns nothing and the cursor stays.
RedisFetchTimeout ==
    /\ UNCHANGED nonRedisVars
    /\ rd_pc = "blocked"
    /\ rd_pc' = "idle"
    /\ UNCHANGED <<stream, last_id, rd_from, rd_returned>>

\* An XADD of the RedisTransport; a blocked XREAD is served the new entry.
XAdd ==
    /\ UNCHANGED nonRedisVars
    /\ Len(stream) < MaxStreamLen
    /\ \E data \in {"json", "garbage"} :
          /\ stream' = Append(stream, data)
          /\ IF rd_pc = "blocked"
             THEN /\ rd_pc' = "idle"
                  /\ last_id' = Len(stream) + 1
                  /\ rd_returned' = rd_returned
                        \cup ParsedEvents(stream', {Len(stream) + 1})
                  /\ UNCHANGED rd_from
             ELSE UNCHANGED <<last_id, rd_pc, rd_from, rd_returned>>

NextRedis ==
    \/ RedisFetch
    \/ RedisFetchBlock
    \/ RedisFetchTimeout
    \/ XAdd

--------------------------------------------------------------------------
(* Storage: properties *)

RowsWithId(id) == {r \in api_events : r.event_id = id}

\* C1: the raw insert is idempotent on event_id.  No two rows of api_events
\* carry the same (non-None) event_id, and right after the INSERT OR IGNORE
\* of an event, whether its id was new or already persisted by this or an
\* earlier batch, exactly one row carries that id.
C1_RawInsertIdempotent ==
    /\ \A r1 \in api_events : \A r2 \in api_events :
          (r1.event_id # None /\ r1.event_id = r2.event_id) => r1 = r2
    /\ (st_pc = "bucket" /\ st_batch[st_idx].event_id # None)
          => Cardinality(RowsWithId(st_batch[st_idx].event_id)) = 1

\* C1 witness: an event whose id was already persisted has just been
\* inserted again and its INSERT was ignored.
C1_Witness ==
    /\ st_pc = "bucket"
    /\ st_ignored
    /\ st_batch[st_idx].event_id # None
    /\ Cardinality(RowsWithId(st_batch[st_idx].event_id)) = 1

\* C2: every endpoint-metrics bucket has request_count equal to the number n
\* of events folded into it and avg_latency_ms equal to the arithmetic mean
\* of their n latencies (so [100, 200, 300] gives 3 and 200).
C2_OnlineMean ==
    \A b \in endpoint_metrics : \A t \in folded :
        t[1] = KeyOfBucket(b)
            => /\ b.request_count = t[2]
               /\ b.avg_latency_ms = Frac(t[3], t[2])

\* C23: every service-dependency edge has call_count equal to the number n
\* of events folded into it, avg_latency_ms equal to the arithmetic mean of
\* their n latencies and error_rate equal to the fraction of them whose
\* error indicator is 1.
C23_EdgeAggregates ==
    \A d \in service_dependencies : \A t \in edge_folded :
        t[1] = KeyOfEdge(d)
            => /\ d.call_count = t[2]
               /\ d.avg_latency_ms = Frac(t[3], t[2])
               /\ d.error_rate = Frac(t[4], t[2])

\* C6: a cleanup_old_data call deletes exactly the raw events whose timestamp
\* is strictly less than the cutoff, now minus the retention days; an event
\* at the cutoff stays.
C6_RetentionBoundary ==
    [][cleanups' = cleanups + 1
         => /\ \E now \in ClockReadings, days \in RetentionDays :
                  cutoff_time' = now - days * 86400
            /\ api_events' = {r \in api_events : r.timestamp >= cutoff_time'}
            /\ purged' = {r \in api_events : r.timestamp < cutoff_time'}]_vars

\* C6 witness: a cleanup has kept an event stamped exactly at the cutoff and
\* has deleted one stamped one second earlier.
C6_Witness ==
    /\ cleanups > 0
    /\ \E r \in api_events : r.timestamp = cutoff_time
    /\ \E r \in purged : r.timestamp = cutoff_time - 1

\* C29: bucket retention and its frame.  A cleanup_old_data call deletes
\* exactly the endpoint-metrics buckets whose date_hour text sorts before the
\* text of the cutoff date, leaves the surviving buckets with the values they
\* had, and changes no service-dependency edge.
C29_BucketRetention ==
    [][cleanups' = cleanups + 1
         => /\ \E now \in ClockReadings, days \in RetentionDays :
                  /\ cutoff_time' \in {r - days * 86400 : r \in ClockReadings}
                  /\ endpoint_metrics' =
                        {b \in endpoint_metrics :
                            ~TextLess(b.date_hour, FormatDate(now - days * 86400))}
            /\ service_dependencies' = service_dependencies]_vars

\* C29 witness: a cleanup with one day of retention has deleted the bucket
\* of the last hour before the cutoff day together with its raw event, has
\* kept the bucket of the first hour of the cutoff day, and the edges are
\* there.
C29_Witness ==
    /\ cleanups > 0
    /\ cutoff_time \in {86400, 86401}
    /\ \E r \in purged : FormatDateHour(r.timestamp) = <<0, 23>>
    /\ ~\E b \in endpoint_metrics : b.date_hour = <<0, 23>>
    /\ \E b \in endpoint_metrics : b.date_hour = <<1, 0>>
    /\ service_dependencies # {}

\* C8: re-insertion is a no-op.  Once the INSERT of an event was ignored
\* because its event_id is already persisted, the statements store_events
\* runs for that event leave the raw rows, every bucket and every
\* dependency edge as they were.
C8_ReinsertNoOp ==
    [][(st_pc \in {"bucket", "edge"} /\ st_ignored)
         => /\ api_events' = api_events
            /\ endpoint_metrics' = endpoint_metrics
            /\ service_dependencies' = service_dependencies]_vars

\* C9: one transaction per batch.  While store_events is inside its batch,
\* no statement of it changes what another connection reads; the writes of
\* a batch become visible together, when the with block is left.
C9_BatchCommittedTogether ==
    [][(st_pc \in {"raw", "bucket", "edge"}) => (visible' = visible)]_vars

\* The events of the batch being stored whose statements all ran.
StoredOfBatch == {j \in 1..Len(st_batch) : ~EdgeFlagRaises(st_batch[j])}

\* C18: a per-event failure does not abort the batch.  The event whose
\* statement raised is not counted and nothing more is written for it; when
\* the for loop is done every event of the batch, the ones after a failed
\* one included, has had its raw insert and its bucket update, every event
\* that did not raise has its dependency edge, and the call commits and
\* returns the number of events that did not raise.
C18_PerEventFailureSkipped ==
    /\ [][(st_pc = "edge" /\ EdgeFlagRaises(st_batch[st_idx]))
             => /\ stored_count' = stored_count
                /\ <<api_events, endpoint_metrics, service_dependencies>>' =
                      <<api_events, endpoint_metrics, service_dependencies>>
                /\ st_batch' = st_batch]_vars
    /\ [](st_pc = "commit"
            => /\ stored_count = Cardinality(StoredOfBatch)
               /\ \A j \in 1..Len(st_batch) :
                     /\ RowsWithId(st_batch[j].event_id) # {}
                     /\ st_batch[j].timestamp # 0
                           => \E b \in endpoint_metrics :
                                 KeyOfBucket(b) = BucketKey(st_batch[j])
                     /\ j \in StoredOfBatch
                           => \E d \in service_dependencies :
                                 KeyOfEdge(d) = EdgeKey(st_batch[j]))
    /\ [][st_pc = "commit"
             => /\ st_pc' = "idle"
                /\ st_result' = stored_count
                /\ visible' = DbState(api_events, endpoint_metrics,
                                      service_dependencies)]_vars

\* C18 witness: the first event of a batch raised in its dependency update,
\* the event after it was stored in all three tables, and the for loop is done.
C18_Witness ==
    /\ st_pc = "commit"
    /\ Len(st_batch) = 2
    /\ StoredOfBatch = {2}
    /\ stored_count = 1
    /\ st_batch[2].event_id # st_batch[1].event_id
    /\ RowsWithId(st_batch[2].event_id) # {}
    /\ \E d \in service_dependencies : KeyOfEdge(d) = EdgeKey(st_batch[2])

\* The number of events folded into the rows of a table, by its record.
RECURSIVE TotalFolded(_)
TotalFolded(f) ==
    IF f = {} THEN 0
    ELSE LET t == CHOOSE x \in f : TRUE
         IN t[2] + TotalFolded(f \ {t})

\* C34: per-event atomicity in store_events.  Each event of a batch has all
\* of its writes applied or none: when the call is over, no raw row is that
\* of an event whose dependency-edge update raised (status_code null and no
\* error), and, no bucket having been deleted, as many events are folded into
\* the buckets as into the edges.
C34_PerEventAtomicity ==
    st_pc = "idle"
        => /\ \A r \in api_events : ~EdgeFlagRaises(r)
           /\ cleanups = 0 => TotalFolded(folded) = TotalFolded(edge_folded)

\* C35: store_events returns the number of events stored.  The count the
\* call returns is the number of raw rows the call has newly persisted; for
\* the first call on the database, with no event of the batch raising, that
\* is every row there is when the for loop is done (rowids are given out
\* from 1).
C35_ReturnsNumberStored ==
    (/\ st_pc = "commit" /\ submitted = Len(st_batch)
     /\ \A j \in 1..Len(st_batch) : ~EdgeFlagRaises(st_batch[j]))
        => stored_count = next_rowid - 1

\* C39: one definition of an error: for every stored event the flag added to
\* the bucket's error_count is 1 exactly when the read side counts the row as
\* an error (status_code >= 400 or error not null), and exactly when the
\* flag folded into the edge's error_rate is 1.
C39_OneErrorDefinition ==
    \A r \in api_events :
        /\ BucketErrorFlag(r) = 1 <=> IsErrorRow(r)
        /\ ~EdgeFlagRaises(r) => (EdgeErrorFlag(r) = 1 <=> IsErrorRow(r))

--------------------------------------------------------------------------
(* Emitter: properties *)

\* C3: backpressure by drop-on-full.  The queue never holds more than its
\* capacity; an emit on a full queue returns in that one step without
\* enqueuing, counts the event in dropped_events exactly once and in nothing
\* else; and while the consumer has taken nothing, capacity + 1 emits leave
\* events_emitted at the capacity and dropped_events at 1.
C3_DropOnFull ==
    /\ [](Len(event_queue) <= QueueSize)
    /\ []((pulled = 0 /\ stats.errors = 0 /\ emit_calls = QueueSize + 1)
            => (stats.events_emitted = QueueSize /\ stats.dropped_events = 1))
    /\ [][(emit_calls' = emit_calls + 1 /\ Len(event_queue) = QueueSize
             /\ stats'.errors = stats.errors)
            => /\ event_queue' = event_queue
               /\ stats'.dropped_events = stats.dropped_events + 1
               /\ stats'.events_emitted = stats.events_emitted]_vars

\* C3 witness: the consumer is stalled, the queue is full, capacity + 1
\* events were emitted and one of them was dropped.
C3_Witness ==
    /\ is_running
    /\ pulled = 0
    /\ emit_calls = QueueSize + 1
    /\ Len(event_queue) = QueueSize
    /\ stats.events_emitted = QueueSize
    /\ stats.dropped_events = 1

\* C11: close is invoked only after the worker of the stopped run has left
\* its loop and its remaining batch has been through transport.send.
C11_CloseAfterFinalSend ==
    [][(~transport_closed /\ transport_closed')
          => workers[Len(workers)].pc = "dead"]_vars

\* The step in which a worker's transport.send raises: a batch went to send
\* and the transport holds what it held.
FailedSendStep == send_log' # send_log /\ transport_events' = transport_events

\* C12: when transport.send raises for a batch, errors grows by one and
\* batches_sent does not, the worker drops the batch and stays in its loop
\* (it ends only when is_running is down), and no event ever goes to
\* transport.send a second time.
C12_LossySendFailure ==
    /\ [](\A c \in DOMAIN send_log : send_log[c] = 1)
    /\ [][FailedSendStep =>
            /\ stats'.errors = stats.errors + 1
            /\ stats'.batches_sent = stats.batches_sent
            /\ event_queue' = event_queue
                 \/ (event_queue # <<>> /\ event_queue' = Tail(event_queue))
            /\ \A w \in 1..Len(workers) :
                  workers'[w] # workers[w] =>
                     /\ workers'[w].batch = <<>>
                     /\ workers'[w].pc = IF workers[w].pc = "check" /\ ~is_running
                                         THEN "dead" ELSE "check"]_vars

\* One worker lost the event of an earlier emit to a failed send and has
\* delivered the event of a later emit since.
C12_Witness ==
    /\ Len(workers) = 1
    /\ workers[1].pc # "dead"
    /\ stats.errors = 1 /\ stats.batches_sent = 1
    /\ \E c \in DOMAIN send_log, i \in 1..Len(transport_events) :
          /\ transport_events[i].call > c
          /\ \A j \in 1..Len(transport_events) : transport_events[j].call # c

\* C13: an emit call on a running emitter ends within its own step with
\* exactly one of events_emitted, dropped_events and errors grown by one,
\* whatever the event and however full the queue; it touches neither the
\* workers nor the transport, and on an emitter that is not running it
\* returns at once with nothing changed.
C13_EmitReturns ==
    /\ [](~is_running => ENABLED (Emit /\ UNCHANGED vars))
    /\ [][emit_calls' = emit_calls + 1 =>
            /\ stats'.events_emitted + stats'.dropped_events + stats'.errors
                  = stats.events_emitted + stats.dropped_events + stats.errors + 1
            /\ stats'.batches_sent = stats.batches_sent
            /\ workers' = workers
            /\ transport_events' = transport_events
            /\ send_log' = send_log
            /\ stop_pc' = stop_pc]_vars

\* An event that item assignment raises on was emitted while the queue was
\* full and the consumer stalled: the error was counted and emit returned.
C13_Witness ==
    /\ is_running
    /\ pulled = 0
    /\ Len(event_queue) = QueueSize
    /\ emit_calls = QueueSize + 1
    /\ stats.errors = 1
    /\ stats.events_emitted = QueueSize

\* C31: every emit is accounted for.  Whatever start(), stop() and emit()
\* calls came before, an emit call adds one to exactly one of events_emitted,
\* dropped_events and errors: no emit call can return with the three
\* counters as they were.
C31_EveryEmitAccounted ==
    /\ [][emit_calls' = emit_calls + 1 =>
            stats'.events_emitted + stats'.dropped_events + stats'.errors
               = stats.events_emitted + stats.dropped_events + stats.errors + 1]_vars
    /\ [](~ENABLED (Emit /\ UNCHANGED stats))

\* C32: no accepted event is left behind at shutdown.  Once stop() has
\* returned and the batch worker has ended, on an emitter none of whose
\* sends has failed, every event counted in events_emitted has been passed
\* to transport.send and the event queue is empty.
C32_NothingLeftAtShutdown ==
    (/\ workers # <<>> /\ ~is_running /\ stop_pc = "none" /\ stats.errors = 0
     /\ \A w \in 1..Len(workers) : workers[w].pc = "dead")
        => /\ event_queue = <<>>
           /\ Cardinality(DOMAIN send_log) = stats.events_emitted

--------------------------------------------------------------------------
(* Alert engine: properties *)

\* The rows of the window of minutes m that ends at the engine's clock.
InWindowRows(m) == {r \in visible.api_events : r.timestamp > al_now - 60 * m}

ErrorRows(m) ==
    {r \in InWindowRows(m) :
        \/ r.error # None
        \/ (r.status_code # None /\ r.status_code[1] >= 400)}

SendCalls(b) == LET RECURSIVE Total(_)
                    Total(S) == IF S = {} THEN 0
                                ELSE LET x == CHOOSE y \in S : TRUE
                                     IN b[x] + Total(S \ {x})
                IN Total(DOMAIN b)

ErrorRateStep == n_checks' = n_checks + 1 /\ last_check'.kind = "error_rate"

TrafficSpikeStep == n_checks' = n_checks + 1 /\ last_check'.kind = "traffic_spike"

C28_IdentityIsExactPair ==
    \A pair \in DOMAIN sent_bag :
        \A i \in 1..Len(config.notifiers) :
            BagCount(deliveries, <<config.notifiers[i], pair[1], pair[2]>>) = 1

\* A step in which _send_alert got past its duplicate test.
FiringStep == alerts_sent' # alerts_sent

\* C19: notifier isolation.  In a _send_alert call that is not a duplicate
\* every configured notifier's send is called exactly once, in configuration
\* order, whichever of them raise, and the call and the check that made it
\* run to their end: the alert id is recorded and the check is counted with
\* the outcome alert.
C19_NotifierIsolation ==
    [][FiringStep
         => /\ Len(last_sends') = Len(config.notifiers)
            /\ \A i \in 1..Len(config.notifiers) :
                  last_sends'[i].notifier = config.notifiers[i]
            /\ SendCalls(deliveries') = SendCalls(deliveries) + Len(config.notifiers)
            /\ \E pair \in DOMAIN sent_bag' :
                  /\ alerts_sent' = alerts_sent \cup {AlertId(pair[1], pair[2])}
                  /\ \A i \in 1..Len(config.notifiers) :
                        BagCount(deliveries', <<config.notifiers[i], pair[1], pair[2]>>)
                          = BagCount(deliveries, <<config.notifiers[i], pair[1], pair[2]>>) + 1
            /\ n_checks' = n_checks + 1
                  => (last_check'.outcome = "alert" /\ last_check'.at = al_now)
            /\ n_checks' = n_checks + 1 \/ n_direct' = n_direct + 1]_vars

\* C19 witness: a check fired, the send of the first notifier raised and the
\* send of the second one was made after it.
C19_Witness ==
    /\ last_check.outcome = "alert"
    /\ last_check.at = al_now
    /\ Len(last_sends) = 2
    /\ last_sends[1] = [notifier |-> "slack", raised |-> TRUE]
    /\ last_sends[2] = [notifier |-> "console", raised |-> FALSE]
    /\ \E pair \in DOMAIN sent_bag :
          BagCount(deliveries, <<"console", pair[1], pair[2]>>) = 1

\* C27: single batch worker.  Whatever start() and stop() calls are made,
\* a stop() whose join times out and a start() after it included, at most
\* one batch worker is inside the loop body, taking events from the queue
\* and calling transport.send.
C27_SingleBatchWorker ==
    Cardinality({w \in 1..Len(workers) : workers[w].pc = "get"}) <= 1

\* C26: a malformed event never stops the collector.  Whatever the raw event
\* the for loop hands to _add_event_to_buffer, the call appends one sanitized
\* event to the buffer or drops the event, and it does not raise: the loop
\* goes on with the events that follow.
C26_MalformedNeverStops ==
    [][(co_pc = "for" /\ fetched # <<>> /\ fetched' # fetched)
         => /\ co_pc' = "for"
            /\ fetched' = Tail(fetched)
            /\ \/ buffered' = buffered \cup {sanitize_event(Head(fetched))}
               \/ buffered' = buffered /\ ~validate_event(Head(fetched))]_vars

--------------------------------------------------------------------------
(* Time windows: properties *)

\* A window of the form Nm, Nh or Nd, and the minutes it stands for.
WellFormed(text) == text.digits # None /\ text.suffix \in {"m", "h", "d"}

DurationMinutes(text) ==
    text.digits[1] * (CASE text.suffix = "m" -> 1
                        [] text.suffix = "h" -> 60
                        [] text.suffix = "d" -> 1440)

\* C24: time-window strings denote their duration.  For a window Nm, Nh or
\* Nd both parsers return its duration, N minutes, N hours or N days, and an
\* analysis or a check with that window considers exactly the events whose
\* timestamp is newer than now minus that duration.
C24_WindowDenotesDuration ==
    [][(tw_call' # tw_call /\ WellFormed(tw_call'.window))
         => /\ ~tw_call'.result.raises
            /\ tw_call'.fn = "_parse_time_window"
                  => tw_call'.result.value * 60 = DurationMinutes(tw_call'.window)
            /\ tw_call'.fn = "_parse_time_window_minutes"
                  => tw_call'.result.value = DurationMinutes(tw_call'.window)
            /\ tw_call'.fn \in {"get_overview_metrics", "_get_error_rate"}
                  => tw_call'.rows =
                       {r \in visible.api_events :
                           r.timestamp > al_now - 60 * DurationMinutes(tw_call'.window)}]_vars

\* C25: fallback on an unparseable time window.  For a string that is not
\* Nm, Nh or Nd with N a decimal integer, _parse_time_window returns 24 and
\* _parse_time_window_minutes returns 5, and neither raises.
C25_FallbackOnUnparseable ==
    ~WellFormed(tw_call.window)
        => /\ tw_call.fn = "_parse_time_window" => tw_call.result = Returns(24)
           /\ tw_call.fn = "_parse_time_window_minutes" => tw_call.result = Returns(5)

--------------------------------------------------------------------------
(* Collector: properties *)

\* C10: every event handed to store_events, and so every stored row, has all
\* required fields, an event_type and a method of the valid sets, a numeric
\* timestamp, a status_code that is null or within 100..599 and a latency_ms
\* that is null or non-negative.
C10_OnlyValidStored ==
    /\ \A e \in handed :
          /\ REQUIRED_FIELDS \subseteq e.keys
          /\ IsStr(e.event_type) /\ e.event_type[2] \in VALID_EVENT_TYPES
          /\ IsStr(e.method) /\ e.method[2] \in VALID_METHODS
          /\ IsNum(e.timestamp)
          /\ Get(e, "status_code") = None
               \/ (IsNum(e.status_code) /\ e.status_code[2] \in 100..599)
          /\ Get(e, "latency_ms") = None
               \/ (IsNum(e.latency_ms) /\ e.latency_ms[2] >= 0)
    /\ \A r \in api_events : r.method \in VALID_METHODS

\* C16: once stop() has returned and the collect loop has ended, the buffer
\* is empty and every event that was buffered has been passed to store_events.
C16_FinalFlushOnStop ==
    (sp_pc = "done" /\ co_pc = "stopped") => (buffer = <<>> /\ buffered \subseteq handed)

\* C17: a _flush_buffer call leaves the buffer empty whether store_events
\* returned or raised, and a raise neither ends the loop nor leaves an event
\* behind to be stored again.
C17_BufferClearedAlways ==
    /\ [][(n_stores' = n_stores + 1 /\ sp_pc' = sp_pc)
             => /\ buffer' = <<>>
                /\ co_pc' = "dead" => (co_pc = "for" /\ fetched # <<>>)
                /\ co_pc' = "stopped" => ~running
                /\ last_store' = "raised" => visible' = visible]_vars
    /\ [][(sp_pc = "clear" /\ sp_pc' = "done") => buffer' = <<>>]_vars

\* store_events raised for a buffer of one event; the buffer was cleared, the
\* event is in no table, and the loop went on to fetch and store a later one.
C17_Witness ==
    /\ n_stores = 2
    /\ last_store = "returned"
    /\ co_pc = "fetch" /\ running
    /\ buffer = <<>>
    /\ Cardinality(handed) = 2
    /\ Cardinality(api_events) = 1
    /\ n_fetches = 2

\* C33: each buffered event is stored at most once, with stop() called from
\* another thread than the loop's.  While stop()'s flush stands between its
\* store_events call and its clear, the buffer still holds the events just
\* passed, and no other store_events call is made on it; and a clear removes
\* no event from the buffer that has not been passed to store_events.
C33_StoredAtMostOnce ==
    /\ [][sp_pc = "clear" => n_stores' = n_stores]_vars
    /\ [][buffer' = <<>> => \A i \in 1..Len(buffer) : buffer[i] \in handed']_vars

\* C22: emitter event ids are unique and increasing.  Of any two events in
\* the queue the one emitted later has the strictly greater event_id, also
\* when both emits read the same clock value.
C22_IdsUniqueIncreasing ==
    \A i, j \in 1..Len(event_queue) :
        event_queue[i].call < event_queue[j].call
            => event_queue[i].event_id < event_queue[j].event_id

\* A step in which a transport.send that returned changed the stored list.
StoredBySend == transport_events' # transport_events /\ mc_pc' = mc_pc

\* The batch the worker w passes to transport.send in the step being taken.
BatchBeingSent(w) ==
    IF workers[w].pc = "get" /\ event_queue' # event_queue
    THEN Append(workers[w].batch, Head(event_queue))
    ELSE workers[w].batch

--------------------------------------------------------------------------
(* Memory collector: properties *)

\* C14: what the clear() of a fetch removes from the transport's list has
\* been returned by that fetch: no event that send appended is cleared
\* without having been fetched.
C14_NoLossDuringDrain ==
    [][(mc_pc = "clear" /\ mc_pc' = "idle")
          => \A i \in 1..Len(transport_events) :
                transport_events[i].call \in mc_returned']_vars

\* C38: at most once from the memory transport: no event a fetch returns
\* has been returned by an earlier fetch.
C38_AtMostOnceFromMemory ==
    [][(mc_pc = "clear" /\ mc_pc' = "idle")
          => \A i \in 1..Len(mc_events) : mc_events[i].call \notin mc_returned]_vars

--------------------------------------------------------------------------
(* Redis collector: properties *)

\* C15: the cursor passes no entry by: whenever a fetch has returned a JSON
\* entry appended after the collector started, every earlier such entry has
\* been returned as well.
C15_NoEntrySkipped ==
    \A i \in 2..Len(stream) :
       (stream[i] = "json" /\ \E j \in rd_returned : j > i) => i \in rd_returned

--------------------------------------------------------------------------
(* Scheduler: properties *)

\* C20: the scheduler loop survives failing cycles.  An exception of
\* run_checks takes the loop to its sleep, the loop ends only at its test
\* and only with the stop event set, the sleep lasts the interval and leads
\* back to the test, and from every sleep the loop begins another cycle
\* unless stop() has set the event.
C20_LoopSurvivesFailures ==
    /\ [][sc_errors' = sc_errors + 1 => sc_pc' = "sleep"]_vars
    /\ [][(sc_pc' = "finished" /\ sc_pc # "finished")
             => (sc_pc = "test" /\ stop_event)]_vars
    /\ [][(sc_pc = "sleep" /\ sc_pc' # "sleep")
             => (sc_pc' = "test" /\ al_now' = al_now + SchedInterval)]_vars
    /\ (sc_pc = "sleep" /\ sc_cycles < MaxCycles) ~> (sc_pc = "latency" \/ stop_event)

\* C20 witness: the first cycle raised, and the loop stands at the first
\* check of its second cycle, one interval later, with no stop() called.
C20_Witness ==
    /\ sc_errors = 1
    /\ sc_cycles = 2
    /\ sc_pc = "latency"
    /\ ~stop_event
    /\ al_now = 100000 + SchedInterval

\* C36: checks are independent within a cycle.  In every cycle the loop goes
\* from the latency check to the error-rate check, from there to the
\* traffic-spike check and from there to its sleep, also when a check raises.
C36_ChecksIndependent ==
    [][(sc_pc \in {"latency", "error_rate", "traffic_spike"} /\ sc_pc' # sc_pc)
         => sc_pc' = NextCheck(sc_pc)]_vars

\* C30: scheduler stop terminates the loop.  With every run_checks call
\* terminating, a stop() on a started scheduler returns in the end; when it
\* has returned the loop's thread has ended and no cycle begins until the
\* next start(); a stop() on a scheduler that was never started returns
\* without waiting.
C30_StopTerminatesLoop ==
    /\ (sc_stop_pc = "join") ~> (sc_stop_pc = "returned")
    /\ [](sc_stop_pc = "returned" => sc_pc \in {"none", "finished"})
    /\ [][(sc_stop_pc = "returned" /\ sc_stop_pc' = "returned")
             => (sc_cycles' = sc_cycles /\ sc_pc' = sc_pc)]_vars
    /\ [](sc_pc = "none" => sc_stop_pc # "join")

\* C30 witness: stop() was called while the loop ran its second cycle, and
\* has returned with the thread ended.
C30_Witness ==
    /\ sc_stop_pc = "returned"
    /\ sc_pc = "finished"
    /\ stop_event
    /\ sc_cycles = 2

--------------------------------------------------------------------------
(* UDP collector: properties *)

\* C37: the UDP fetch terminates.  Every _fetch_events call comes to its
\* end, also when datagrams keep arriving less than a receive timeout apart,
\* and once stop() has cleared running the loop's thread comes to see it.
C37_UdpFetchTerminates ==
    /\ (udp_pc = "recv") ~> (udp_pc # "recv")
    /\ (~udp_running /\ udp_pc \in {"loop", "recv"}) ~> (udp_pc \in {"stopped", "raised"})

--------------------------------------------------------------------------
(* Specifications *)

\* Every component starts as its constructor leaves it.
Init ==
    /\ InitStorage /\ InitEmitter({"memory"}) /\ InitAlertEngine({DefaultConfig})
    /\ InitCollector /\ InitDrain /\ InitRedis /\ InitScheduler /\ InitWindows
    /\ InitUdp

\* The same, under any of the alert configurations.
InitConfigured ==
    /\ InitStorage /\ InitEmitter({"memory"}) /\ InitAlertEngine(Configs)
    /\ InitCollector /\ InitDrain /\ InitRedis /\ InitScheduler /\ InitWindows
    /\ InitUdp

\* The same, with a transport that goes over the network.
InitNetworked ==
    /\ InitStorage /\ InitEmitter({"redis", "udp"}) /\ InitAlertEngine({DefaultConfig})
    /\ InitCollector /\ InitDrain /\ InitRedis /\ InitScheduler /\ InitWindows
    /\ InitUdp

SpecStorage == Init /\ [][NextStorage]_vars

SpecEmitter == Init /\ [][NextEmitter]_vars

SpecEmitterNetworked == InitNetworked /\ [][NextEmitter]_vars

SpecAlert == InitConfigured /\ [][NextAlert]_vars

SpecCollector == Init /\ [][NextCollector]_vars

SpecDrain == Init /\ [][NextDrain]_vars

SpecTransport == Init /\ [][NextTransport]_vars

SpecRedis == Init /\ [][NextRedis]_vars

SpecWindows == Init /\ [][NextWindows]_vars

\* The UDP collector's thread is scheduled again and again; whether the next
\* datagram comes before the timeout is the network's choice.
SpecUdp == Init /\ [][NextUdp]_vars /\ WF_vars(UdpThread)

\* The scheduler's thread is scheduled again and again, and a join returns
\* once it can.
SpecScheduler ==
    Init /\ [][NextScheduler]_vars /\ WF_vars(RunLoop) /\ WF_vars(SchedulerJoin)

==========================================================================
